---- MODULE Spec2Model ----
(***************************************************************************)
(* Model of the signal combiner and market analysis of                     *)
(* IndianTradingSystem, the trade ledger of IndianAutoTrader, the trailing *)
(* stop and the opening of trades of AutoTrader, and the pre-checks and    *)
(* position sizing of RiskManager.                                         *)
(*                                                                         *)
(* Units.  Prices and money are integers in thousandths of a rupee         *)
(* (100000 stands for 100.000), so that the percentage offsets the         *)
(* strategies use (2%, 2.5%, 3%) are whole numbers.  Strategy weights are  *)
(* in tenths (0.4 is 4) and confidences in percent (0.7 is 70).  Times are *)
(* seconds of IST counted from Monday 00:00:00.                            *)
(***************************************************************************)
EXTENDS Integers, Sequences, FiniteSets, TLC

VARIABLES
    now,                \* wall clock read by the trading loop (IST seconds)
    running,            \* IndianAutoTrader.running
    pc,                 \* position of the trading-loop thread
    cursor,             \* index into symbol_list inside get_all_signals
    signals,            \* the list get_all_signals builds / the loop consumes
    monitor_list,       \* list(self.active_trades.items()) still to visit
    monitor_price,      \* current_price of _monitor_trades: the close it fetched last (0: no data)
    active_trades,      \* IndianAutoTrader.active_trades (insertion ordered)
    trade_history,      \* IndianAutoTrader.trade_history
    total_pnl,          \* IndianAutoTrader.total_pnl
    trades_db,          \* rows of the persistent trades table
    portfolio_history,  \* rows of the persistent portfolio_history table
    active_trades_db,   \* ids in the persistent active_trades table
    iterations,         \* loop iterations begun since start()
    at_active_trades,   \* AutoTrader.active_trades (insertion ordered)
    at_pc,              \* position of the AutoTrader loop thread
    at_iterations,      \* iterations the AutoTrader loop has begun
    cw_in,              \* arguments of _combine_weighted_signals
    cw_out,             \* its result
    an_in,              \* arguments of analyze_indian_market and the data it fetched
    an_out,             \* the signal it returned
    rm_in,              \* what RiskManager reads: its arguments and the tables and prices
    rm_check,           \* result of check_risk_limits
    rm_size,            \* result of calculate_advanced_position_size
    at_cursor,          \* index of the for loop of _check_enhanced_trading_opportunities
    rm_db,              \* the tables RiskManager reads while that loop runs
    trading_thread,     \* IndianAutoTrader.trading_thread: 0 is None, else an index of loop_threads
    loop_threads,       \* the threads created with target=_trading_loop, each with its locals
    request_threads     \* the request threads inside start() or stop()

vars == <<now, running, pc, cursor, signals, monitor_list, monitor_price, active_trades,
          trade_history, total_pnl, trades_db, portfolio_history,
          active_trades_db, iterations, at_active_trades, at_pc,
          at_iterations, cw_in, cw_out, an_in, an_out, rm_in, rm_check,
          rm_size, at_cursor, rm_db, trading_thread, loop_threads, request_threads>>

threadVars == <<trading_thread, loop_threads, request_threads>>

traderVars == <<now, running, pc, cursor, signals, monitor_list, monitor_price, active_trades,
                trade_history, total_pnl, trades_db, portfolio_history,
                active_trades_db, iterations, threadVars>>

autoVars == <<at_active_trades, at_pc, at_iterations>>

combinerVars == <<cw_in, cw_out>>

analysisVars == <<an_in, an_out>>

\* the variables of the functions that are exercised on their own
riskVars == <<rm_in, rm_check, rm_size>>

openVars == <<at_cursor, rm_db>>

callVars == <<combinerVars, analysisVars, riskVars, openVars>>

(***************************************************************************)
(* Bounds of the exploration.                                              *)
(***************************************************************************)
\* trades the loop opens in one run of the model
MaxTrades == 2
\* whole seconds an iteration that trades spends outside its sleep (the five
\* 0.25 s pauses of get_all_signals and the provider calls)
ProcessingSeconds == 2
\* AutoTrader loop iterations explored after start()
MaxTrailIterations == 3
\* loop iterations explored after start()
MaxIter == 3
\* the instant up to which the clock of a loop left running is followed:
\* Tuesday 09:16:00
LiveHorizon == 119760
\* request threads that call start() or stop() concurrently
MaxRequests == 2

(***************************************************************************)
(* Program constants.                                                      *)
(***************************************************************************)
SecondsPerDay == 24 * 60 * 60
MarketOpenSec == 9 * 3600 + 15 * 60
MarketCloseSec == 15 * 3600 + 30 * 60
GuardStartSec == 15 * 3600 + 29 * 60 + 30
GuardEndSec == 15 * 3600 + 31 * 60
MaxDurationSeconds == 6 * 60 * 60
LoopSleepSeconds == 30
SignalsMinConfidence == 50
LoopMinConfidence == 40
DefaultQuantity == 1
InitialBalance == 5000000

NaN == 0 - 1
NoResult == [type |-> "NONE", confidence |-> 0, target |-> 0, stop_loss |-> 0,
             strategy_name |-> "NONE"]

\* x * (1 + permille/1000), as current_price * 1.02 etc.
Scaled(x, permille) == (x * permille) \div 1000

\* comparisons with a NaN operand are False
Gt(a, b) == a # NaN /\ b # NaN /\ a > b
Lt(a, b) == a # NaN /\ b # NaN /\ a < b
Ge(a, b) == a # NaN /\ b # NaN /\ a >= b
Le(a, b) == a # NaN /\ b # NaN /\ a <= b

RECURSIVE SumWeights(_, _)
SumWeights(rs, t) ==
    IF rs = <<>> THEN 0
    ELSE (IF Head(rs)[1].type = t THEN Head(rs)[2] ELSE 0) + SumWeights(Tail(rs), t)

\* the total if HOLD weights were left out
TotalWeightNoHold(rs) == SumWeights(rs, "BUY") + SumWeights(rs, "SELL")

\* total_weight = sum(weight for _, weight in strategies_results)
RECURSIVE TotalWeight(_)
TotalWeight(rs) == IF rs = <<>> THEN 0 ELSE Head(rs)[2] + TotalWeight(Tail(rs))

RECURSIVE WeightedSum(_, _, _)
WeightedSum(rs, t, fld) ==
    IF rs = <<>> THEN 0
    ELSE (IF Head(rs)[1].type = t
          THEN (IF fld = "target" THEN Head(rs)[1].target ELSE Head(rs)[1].stop_loss)
               * Head(rs)[2]
          ELSE 0)
         + WeightedSum(Tail(rs), t, fld)

HasType(rs, t) == \E i \in 1..Len(rs) : rs[i][1].type = t

\* the winner if equal weights went to BUY
FinalTypeAlt(buy_weight, sell_weight) ==
    IF buy_weight >= sell_weight /\ buy_weight > 0 THEN "BUY"
    ELSE IF sell_weight > 0 THEN "SELL"
    ELSE "HOLD"

\* if buy_weight > sell_weight: BUY / elif sell_weight > 0: SELL / else: HOLD
FinalType(buy_weight, sell_weight) ==
    IF buy_weight > sell_weight THEN "BUY"
    ELSE IF sell_weight > 0 THEN "SELL"
    ELSE "HOLD"

_combine_weighted_signals(strategies_results, current_price) ==
    LET hold0 == [type |-> "HOLD", confidence |-> 0, target |-> current_price,
                  stop_loss |-> current_price, strategy_name |-> "Combined"]
        total_weight == TotalWeight(strategies_results)
        buy_weight == SumWeights(strategies_results, "BUY")
        sell_weight == SumWeights(strategies_results, "SELL")
        hold_weight == SumWeights(strategies_results, "HOLD")
        final_type == FinalType(buy_weight, sell_weight)
        win_weight == IF final_type = "BUY" THEN buy_weight
                      ELSE IF final_type = "SELL" THEN sell_weight
                      ELSE hold_weight
    IN  IF strategies_results = <<>> THEN hold0
        ELSE IF total_weight = 0 THEN hold0
        ELSE [type |-> final_type,
              confidence |-> (win_weight * 100) \div total_weight,
              target |->
                IF final_type = "HOLD" THEN current_price
                ELSE IF HasType(strategies_results, final_type)
                     THEN WeightedSum(strategies_results, final_type, "target")
                          \div win_weight
                     ELSE IF final_type = "BUY" THEN Scaled(current_price, 1020)
                          ELSE Scaled(current_price, 980),
              stop_loss |->
                IF final_type = "HOLD" THEN current_price
                ELSE IF HasType(strategies_results, final_type)
                     THEN WeightedSum(strategies_results, final_type, "stop_loss")
                          \div win_weight
                     ELSE IF final_type = "BUY" THEN Scaled(current_price, 980)
                          ELSE Scaled(current_price, 1020),
              strategy_name |-> "Multi-Strategy"]

(***************************************************************************)
(* Strategy set.  A strategy reads the indicator snapshot `ind` built by   *)
(* _calculate_indian_indicators, whose keys are rsi, macd, macd_signal,    *)
(* bb_upper, bb_lower, sma50, sma200, volume_ratio, support_levels and     *)
(* resistance_levels.  A key the snapshot does not hold reads as the       *)
(* default given in the strategy's indicators.get call.                    *)
(***************************************************************************)
StrategyResult(t, c, tg, sl, name) ==
    [type |-> t, confidence |-> c, target |-> tg, stop_loss |-> sl,
     strategy_name |-> name]

nifty_momentum_strategy(current_price, ind) ==
    IF Gt(current_price, ind.sma50)
    THEN StrategyResult("BUY", 70, Scaled(current_price, 1020),
                        Scaled(current_price, 980), "NIFTY Momentum")
    ELSE IF Lt(current_price, ind.sma50)
    THEN StrategyResult("SELL", 70, Scaled(current_price, 980),
                        Scaled(current_price, 1020), "NIFTY Momentum")
    ELSE StrategyResult("HOLD", 30, current_price, current_price, "NIFTY Momentum")

Min(a, b) == IF a <= b THEN a ELSE b

mean_reversion_strategy(current_price, ind) ==
    LET bb_middle == current_price    \* indicators.get('bb_middle', current_price)
        oversold == Lt(ind.rsi, 30) /\ Le(current_price, ind.bb_lower)
        overbought == Gt(ind.rsi, 70) /\ Ge(current_price, ind.bb_upper)
    IN  IF oversold
        THEN StrategyResult("BUY", Min(((30 - ind.rsi) * 100) \div 30, 100),
                            bb_middle, Scaled(current_price, 980), "Mean Reversion")
        ELSE IF overbought
        THEN StrategyResult("SELL", Min(((ind.rsi - 70) * 100) \div 30, 100),
                            bb_middle, Scaled(current_price, 1020), "Mean Reversion")
        ELSE StrategyResult("HOLD", 30, current_price, current_price, "Mean Reversion")

trend_following_strategy(current_price, ind) ==
    LET sma_20 == current_price       \* indicators.get('sma_20', current_price)
        sma_50 == current_price       \* indicators.get('sma_50', current_price)
        ema_12 == current_price       \* indicators.get('ema_12', current_price)
        ema_26 == current_price       \* indicators.get('ema_26', current_price)
        bullish_trend == /\ Gt(current_price, sma_20) /\ Gt(sma_20, sma_50)
                         /\ Gt(ema_12, ema_26) /\ Gt(ind.macd, ind.macd_signal)
        bearish_trend == /\ Lt(current_price, sma_20) /\ Lt(sma_20, sma_50)
                         /\ Lt(ema_12, ema_26) /\ Lt(ind.macd, ind.macd_signal)
    IN  IF bullish_trend
        THEN StrategyResult("BUY", 70, Scaled(current_price, 1025),
                            Scaled(sma_20, 995), "Trend Following")
        ELSE IF bearish_trend
        THEN StrategyResult("SELL", 70, Scaled(current_price, 975),
                            Scaled(sma_20, 1005), "Trend Following")
        ELSE StrategyResult("HOLD", 30, current_price, current_price, "Trend Following")

\* for level in levels: if <price beyond level> and volume_ratio > 1.5: ...; break
RECURSIVE FirstBroken(_, _, _)
FirstBroken(levels, current_price, above) ==
    IF levels = <<>> THEN NaN
    ELSE IF (IF above THEN current_price > Head(levels) ELSE current_price < Head(levels))
         THEN Head(levels)
         ELSE FirstBroken(Tail(levels), current_price, above)

stock_breakout_strategy(current_price, ind) ==
    LET resistance == IF ind.volume_ratio > 15
                      THEN FirstBroken(ind.resistance_levels, current_price, TRUE)
                      ELSE NaN
        support == IF ind.volume_ratio > 15
                   THEN FirstBroken(ind.support_levels, current_price, FALSE)
                   ELSE NaN
    IN  IF resistance # NaN
        THEN StrategyResult("BUY", 80, Scaled(resistance, 1020),
                            Scaled(current_price, 980), "Stock Breakout")
        ELSE IF support # NaN
        THEN StrategyResult("SELL", 80, Scaled(support, 980),
                            Scaled(current_price, 1020), "Stock Breakdown")
        ELSE StrategyResult("HOLD", 50, current_price, current_price, "Stock Breakout")

stock_volatility_strategy(current_price, ind) ==
    LET bb_width == 20                       \* indicators.get('bb_width', 0.02), permille
        atr == Scaled(current_price, 20)     \* indicators.get('atr', current_price * 0.02)
        high_volatility == bb_width > 30
    IN  IF high_volatility /\ Le(current_price, ind.bb_lower) /\ ind.volume_ratio > 12
        THEN StrategyResult("BUY", 60, current_price + atr * 2, current_price - atr,
                            "Volatility Expansion")
        ELSE IF high_volatility /\ Ge(current_price, ind.bb_upper) /\ ind.volume_ratio > 12
        THEN StrategyResult("SELL", 60, current_price - atr * 2, current_price + atr,
                            "Volatility Expansion")
        ELSE StrategyResult("HOLD", 30, current_price, current_price, "Volatility")

banknifty_volatility_strategy(current_price, ind) ==
    LET volatility_buy == /\ Le(current_price, ind.bb_lower) /\ Lt(ind.rsi, 35)
                          /\ ind.volume_ratio > 12
        volatility_sell == /\ Ge(current_price, ind.bb_upper) /\ Gt(ind.rsi, 75)
                           /\ ind.volume_ratio > 12
    IN  IF volatility_buy
        THEN StrategyResult("BUY", Min(((35 - ind.rsi) * 100) \div 35, 100),
                            Scaled(current_price, 1015), Scaled(current_price, 985),
                            "BANKNIFTY Volatility")
        ELSE IF volatility_sell
        THEN StrategyResult("SELL", Min(((ind.rsi - 25) * 100) \div 50, 100),
                            Scaled(current_price, 985), Scaled(current_price, 1015),
                            "BANKNIFTY Volatility")
        ELSE StrategyResult("HOLD", 50, current_price, current_price,
                            "BANKNIFTY Volatility")

enhanced_breakout_strategy(current_price, ind) ==
    LET atr == Scaled(current_price, 20)     \* indicators.get('atr', current_price * 0.02)
        resistance == IF ind.volume_ratio > 15
                      THEN FirstBroken(ind.resistance_levels, current_price, TRUE)
                      ELSE NaN
        support == IF ind.volume_ratio > 15
                   THEN FirstBroken(ind.support_levels, current_price, FALSE)
                   ELSE NaN
    IN  IF resistance # NaN
        THEN StrategyResult("BUY", Min(80, 50 + ind.volume_ratio),
                            Scaled(resistance, 1020), current_price - atr,
                            "Enhanced Breakout")
        ELSE IF support # NaN
        THEN StrategyResult("SELL", Min(80, 50 + ind.volume_ratio),
                            Scaled(support, 980), current_price + atr,
                            "Enhanced Breakdown")
        ELSE StrategyResult("HOLD", 30, current_price, current_price,
                            "Enhanced Breakout")

\* large_cap_strategy as it would be if the snapshot's 'sma50' were the key read
large_cap_strategyReadingSma50(current_price, ind) ==
    LET sma_50 == ind.sma50
        sma_200 == current_price
        bullish == /\ Gt(ind.rsi, 45) /\ Lt(ind.rsi, 65)
                   /\ Gt(current_price, sma_50) /\ Gt(sma_50, sma_200)
                   /\ Gt(ind.macd, ind.macd_signal) /\ ind.volume_ratio > 12
        bearish == /\ Lt(ind.rsi, 55) /\ Gt(ind.rsi, 35)
                   /\ Lt(current_price, sma_50)
                   /\ Lt(ind.macd, ind.macd_signal) /\ ind.volume_ratio > 12
    IN  IF bullish
        THEN StrategyResult("BUY", 60, Scaled(current_price, 1020),
                            Scaled(current_price, 980), "Large Cap")
        ELSE IF bearish
        THEN StrategyResult("SELL", 60, Scaled(current_price, 980),
                            Scaled(current_price, 1020), "Large Cap")
        ELSE StrategyResult("HOLD", 40, current_price, current_price, "Large Cap")

large_cap_strategy(current_price, ind) ==
    LET sma_50 == current_price       \* indicators.get('sma_50', current_price)
        sma_200 == current_price      \* indicators.get('sma_200', current_price)
        bullish == /\ Gt(ind.rsi, 45) /\ Lt(ind.rsi, 65)
                   /\ Gt(current_price, sma_50) /\ Gt(sma_50, sma_200)
                   /\ Gt(ind.macd, ind.macd_signal) /\ ind.volume_ratio > 12
        bearish == /\ Lt(ind.rsi, 55) /\ Gt(ind.rsi, 35)
                   /\ Lt(current_price, sma_50)
                   /\ Lt(ind.macd, ind.macd_signal) /\ ind.volume_ratio > 12
    IN  IF bullish
        THEN StrategyResult("BUY", 60, Scaled(current_price, 1020),
                            Scaled(current_price, 980), "Large Cap")
        ELSE IF bearish
        THEN StrategyResult("SELL", 60, Scaled(current_price, 980),
                            Scaled(current_price, 1020), "Large Cap")
        ELSE StrategyResult("HOLD", 40, current_price, current_price, "Large Cap")

stock_momentum_strategy(current_price, ind) ==
    LET stochastic_k == 50            \* indicators.get('stochastic_k', 50)
        williams_r == 0 - 50          \* indicators.get('williams_r', -50)
        strong_momentum_buy == /\ Gt(ind.rsi, 50) /\ Lt(ind.rsi, 70)
                               /\ stochastic_k > 50 /\ williams_r > 0 - 50
                               /\ ind.volume_ratio > 13
        strong_momentum_sell == /\ Lt(ind.rsi, 50) /\ Gt(ind.rsi, 30)
                                /\ stochastic_k < 50 /\ williams_r < 0 - 50
                                /\ ind.volume_ratio > 13
    IN  IF strong_momentum_buy
        THEN StrategyResult("BUY", 70, Scaled(current_price, 1030),
                            Scaled(current_price, 970), "Stock Momentum")
        ELSE IF strong_momentum_sell
        THEN StrategyResult("SELL", 70, Scaled(current_price, 970),
                            Scaled(current_price, 1030), "Stock Momentum")
        ELSE StrategyResult("HOLD", 30, current_price, current_price, "Stock Momentum")

\* the call self.<name>(data, indicators)
RunStrategy(name, current_price, ind) ==
    CASE name = "nifty_momentum_strategy" -> nifty_momentum_strategy(current_price, ind)
      [] name = "mean_reversion_strategy" -> mean_reversion_strategy(current_price, ind)
      [] name = "trend_following_strategy" -> trend_following_strategy(current_price, ind)
      [] name = "banknifty_volatility_strategy" ->
            banknifty_volatility_strategy(current_price, ind)
      [] name = "enhanced_breakout_strategy" ->
            enhanced_breakout_strategy(current_price, ind)
      [] name = "large_cap_strategy" -> large_cap_strategy(current_price, ind)
      [] name = "stock_momentum_strategy" -> stock_momentum_strategy(current_price, ind)
      [] name = "stock_breakout_strategy" -> stock_breakout_strategy(current_price, ind)
      [] name = "stock_volatility_strategy" ->
            stock_volatility_strategy(current_price, ind)

\* the keys of indian_symbols, in order, spelled out so that the test
\* 'NIFTY' in symbol can be evaluated
indian_symbols ==
    <<"NIFTY50",
      "BANKNIFTY",
      "SENSEX",
      "FINNIFTY",
      "MIDCPNIFTY",
      "NIFTYREALTY", "NIFTYPVTBANK", "NIFTYPSUBANK", "NIFTYFIN", "NIFTYMEDIA",
      "RELIANCE", "TCS", "HDFCBANK", "INFY", "ICICIBANK",
      "HINDUNILVR", "SBIN", "BHARTIARTL", "KOTAKBANK", "BAJFINANCE">>

Spelling ==
    [NIFTY50 |-> <<"N", "I", "F", "T", "Y", "5", "0">>,
     BANKNIFTY |-> <<"B", "A", "N", "K", "N", "I", "F", "T", "Y">>,
     SENSEX |-> <<"S", "E", "N", "S", "E", "X">>,
     FINNIFTY |-> <<"F", "I", "N", "N", "I", "F", "T", "Y">>,
     MIDCPNIFTY |-> <<"M", "I", "D", "C", "P", "N", "I", "F", "T", "Y">>,
     NIFTYREALTY |-> <<"N", "I", "F", "T", "Y", "R", "E", "A", "L", "T", "Y">>,
     NIFTYPVTBANK |-> <<"N", "I", "F", "T", "Y", "P", "V", "T", "B", "A", "N", "K">>,
     NIFTYPSUBANK |-> <<"N", "I", "F", "T", "Y", "P", "S", "U", "B", "A", "N", "K">>,
     NIFTYFIN |-> <<"N", "I", "F", "T", "Y", "F", "I", "N">>,
     NIFTYMEDIA |-> <<"N", "I", "F", "T", "Y", "M", "E", "D", "I", "A">>,
     RELIANCE |-> <<"R", "E", "L", "I", "A", "N", "C", "E">>,
     TCS |-> <<"T", "C", "S">>,
     HDFCBANK |-> <<"H", "D", "F", "C", "B", "A", "N", "K">>,
     INFY |-> <<"I", "N", "F", "Y">>,
     ICICIBANK |-> <<"I", "C", "I", "C", "I", "B", "A", "N", "K">>,
     HINDUNILVR |-> <<"H", "I", "N", "D", "U", "N", "I", "L", "V", "R">>,
     SBIN |-> <<"S", "B", "I", "N">>,
     BHARTIARTL |-> <<"B", "H", "A", "R", "T", "I", "A", "R", "T", "L">>,
     KOTAKBANK |-> <<"K", "O", "T", "A", "K", "B", "A", "N", "K">>,
     BAJFINANCE |-> <<"B", "A", "J", "F", "I", "N", "A", "N", "C", "E">>]

\* Python's `sub in text` on strings
IsSubstring(sub, text) ==
    \E k \in 0..(Len(text) - Len(sub)) : SubSeq(text, k + 1, k + Len(sub)) = sub

\* the symbols for which 'NIFTY' in symbol holds
NiftySymbols ==
    {indian_symbols[i] : i \in {j \in 1..Len(indian_symbols) :
        IsSubstring(<<"N", "I", "F", "T", "Y">>, Spelling[indian_symbols[j]])}}

\* the symbols for which 'BANKNIFTY' in symbol holds
BankNiftySymbols ==
    {indian_symbols[i] : i \in {j \in 1..Len(indian_symbols) :
        IsSubstring(<<"B", "A", "N", "K", "N", "I", "F", "T", "Y">>,
                    Spelling[indian_symbols[j]])}}

\* list(self.indian_symbols.keys())[:5] is NIFTY50, BANKNIFTY, SENSEX, FINNIFTY,
\* MIDCPNIFTY; the model evaluates one symbol of each class the list holds.
symbol_list == <<"NIFTY50", "SENSEX">>

\* risk_reward_ratio is in thousandths; the constructors below pass 0.0
Signal(sym, t, c, entry, tg, sl, name) ==
    [symbol |-> sym, signal_type |-> t, confidence |-> c, entry_price |-> entry,
     target_price |-> tg, stop_loss |-> sl, strategy |-> name,
     risk_reward_ratio |-> 0]

_create_neutral_signal(symbol) == Signal(symbol, "HOLD", 0, 0, 0, 0, "Neutral")

\* the strategies the if / elif / else chain on the symbol selects, with their
\* weights in tenths, in the order they are appended to strategies_results
StrategySelection(symbol) ==
    IF symbol \in NiftySymbols
    THEN << <<"nifty_momentum_strategy", 4>>, <<"mean_reversion_strategy", 3>>,
            <<"trend_following_strategy", 3>> >>
    ELSE IF symbol \in BankNiftySymbols
    THEN << <<"banknifty_volatility_strategy", 5>>,
            <<"enhanced_breakout_strategy", 5>> >>
    ELSE IF symbol \in {"RELIANCE", "TCS", "HDFCBANK", "INFY"}
    THEN << <<"large_cap_strategy", 6>>, <<"stock_momentum_strategy", 4>> >>
    ELSE << <<"stock_breakout_strategy", 7>>, <<"stock_volatility_strategy", 3>> >>

_apply_indian_strategies(symbol, data) ==
    LET current_price == data.price
        selected == StrategySelection(symbol)
        strategies_results ==
            [i \in 1..Len(selected) |->
                <<RunStrategy(selected[i][1], current_price, data), selected[i][2]>>]
        final_signal == _combine_weighted_signals(strategies_results, current_price)
    IN  Signal(symbol, final_signal.type, final_signal.confidence, current_price,
               final_signal.target, final_signal.stop_loss, final_signal.strategy_name)

\* reward / risk in thousandths; only its sign and zero matter to the callers
_calculate_risk_reward(signal, current_price) ==
    IF signal.signal_type = "HOLD" THEN 0
    ELSE LET reward == IF signal.signal_type = "BUY"
                       THEN signal.target_price - current_price
                       ELSE current_price - signal.target_price
             risk == IF signal.signal_type = "BUY"
                     THEN current_price - signal.stop_loss
                     ELSE signal.stop_loss - current_price
         IN  IF risk > 0 THEN (reward * 1000) \div risk ELSE 0

analyze_indian_market(symbol, data) ==
    IF data.empty THEN _create_neutral_signal(symbol)
    ELSE LET signal == _apply_indian_strategies(symbol, data)
         IN  [signal EXCEPT !.risk_reward_ratio =
                                _calculate_risk_reward(signal, data.price)]

(***************************************************************************)
(* What the market data provider can hand to one analysis: no bars, or a   *)
(* bar series summarised by its last close and the indicator values        *)
(* computed from it.                                                       *)
(***************************************************************************)
Snapshot(p, sma, r, lo, hi, vr, res, sup) ==
    [empty |-> FALSE, price |-> p, sma50 |-> sma, rsi |-> r, bb_lower |-> lo,
     bb_upper |-> hi, macd |-> 0, macd_signal |-> 0, volume_ratio |-> vr,
     resistance_levels |-> res, support_levels |-> sup]

EmptyData == [Snapshot(0, NaN, 50, NaN, NaN, 10, <<>>, <<>>) EXCEPT !.empty = TRUE]

EntryPrices == {100000}

IndexData ==
    { Snapshot(p, sma, r, b[1], b[2], 10, <<>>, <<>>) :
        p \in EntryPrices, sma \in {NaN, 99000, 103000}, r \in {20, 50, 80},
        b \in {<<96000, 104000>>, <<104000, 112000>>, <<88000, 96000>>} }

StockData ==
    { Snapshot(p, NaN, 50, 96000, 104000, vr, res, sup) :
        p \in EntryPrices, vr \in {10, 20},
        res \in {<<>>, <<105000, 95000>>}, sup \in {<<>>, <<103000>>} }

MarketData(symbol) ==
    {EmptyData} \cup (IF symbol \in NiftySymbols THEN IndexData ELSE StockData)

\* the closes a monitoring fetch can return; 0 stands for no data
MonitorPrices == {0, 98000, 100000, 102000}

(***************************************************************************)
(* IndianAutoTrader: the trade ledger.                                     *)
(***************************************************************************)
\* the attributes IndianAutoTrader.__init__ sets on self
IndianAutoTraderAttrs ==
    {"trading_system", "active_trades", "running", "trading_thread",
     "trade_history", "total_pnl", "user_id", "default_quantity", "initial_balance"}

\* sqlite3.connect(self.trading.db_path): reading self.trading raises
\* AttributeError unless the object has that attribute; the enclosing
\* try/except logs the error and skips the whole persistence block.
DbPathReachable == "trading" \in IndianAutoTraderAttrs

TimeOfDay(t) == t % SecondsPerDay
Weekday(t) == (t \div SecondsPerDay) % 7

\* get_setting('simulation_mode', '0') is '0': nothing writes that setting
is_market_open(t) ==
    IF Weekday(t) >= 5 THEN FALSE
    ELSE MarketOpenSec <= TimeOfDay(t) /\ TimeOfDay(t) <= MarketCloseSec

InGuardWindow(t) == GuardStartSec <= TimeOfDay(t) /\ TimeOfDay(t) <= GuardEndSec

\* active_trades is a dict: insertion ordered, keyed by trade id
Ids(trades) == {trades[i].id : i \in 1..Len(trades)}
IndexOf(trades, id) == CHOOSE i \in 1..Len(trades) : trades[i].id = id
DictPut(trades, trade) ==
    IF trade.id \in Ids(trades)
    THEN [trades EXCEPT ![IndexOf(trades, trade.id)] = trade]
    ELSE Append(trades, trade)
DictDel(trades, id) == SelectSeq(trades, LAMBDA t : t.id # id)

\* an id without the epoch second
TradeIdSymbolOnly(symbol, t) == <<symbol, 0>>

\* f"indian_{signal.symbol}_{int(time.time())}"
TradeId(symbol, t) == <<symbol, t>>

\* signals.sort(key=lambda x: x.confidence, reverse=True): stable, descending
RECURSIVE InsertByConfidence(_, _)
InsertByConfidence(sorted, sig) ==
    IF sorted = <<>> THEN <<sig>>
    ELSE IF Head(sorted).confidence >= sig.confidence
         THEN <<Head(sorted)>> \o InsertByConfidence(Tail(sorted), sig)
         ELSE <<sig>> \o sorted

RECURSIVE SortByConfidence(_)
SortByConfidence(sigs) ==
    IF sigs = <<>> THEN <<>>
    ELSE InsertByConfidence(SortByConfidence(SubSeq(sigs, 1, Len(sigs) - 1)),
                            sigs[Len(sigs)])

Opened == Len(active_trades) + Len(trade_history)

NewTrade(signal, t) ==
    [id |-> TradeId(signal.symbol, t), symbol |-> signal.symbol,
     type |-> signal.signal_type, entry_price |-> signal.entry_price,
     target_price |-> signal.target_price, stop_loss |-> signal.stop_loss,
     quantity |-> DefaultQuantity, strategy |-> signal.strategy,
     confidence |-> signal.confidence, entry_epoch |-> t, status |-> "ACTIVE"]

\* the P&L if the direction were ignored
PnlAmountAbs(trade, exit_price) == (exit_price - trade.entry_price) * trade.quantity

\* pnl_amount of _close_trade
PnlAmount(trade, exit_price) ==
    IF trade.type = "BUY"
    THEN (exit_price - trade.entry_price) * trade.quantity
    ELSE (trade.entry_price - exit_price) * trade.quantity

\* the exit rules of _monitor_trades tested prices first, clock last
MonitorExitReasonPriceFirst(trade, current_price, t) ==
    IF trade.type = "BUY" /\ current_price <= trade.stop_loss THEN "Stop Loss Hit"
    ELSE IF trade.type = "SELL" /\ current_price >= trade.stop_loss THEN "Stop Loss Hit"
    ELSE IF trade.type = "BUY" /\ current_price >= trade.target_price THEN "Target Reached"
    ELSE IF trade.type = "SELL" /\ current_price <= trade.target_price THEN "Target Reached"
    ELSE IF t - trade.entry_epoch >= MaxDurationSeconds THEN "Max Duration Exit"
    ELSE IF InGuardWindow(t) THEN "Market Close Exit"
    ELSE "NONE"

\* the exit rules of _monitor_trades, in the order the code tests them
MonitorExitReason(trade, current_price, t) ==
    IF InGuardWindow(t) THEN "Market Close Exit"
    ELSE IF t - trade.entry_epoch >= MaxDurationSeconds THEN "Max Duration Exit"
    ELSE IF trade.type = "BUY" /\ current_price <= trade.stop_loss THEN "Stop Loss Hit"
    ELSE IF trade.type = "SELL" /\ current_price >= trade.stop_loss THEN "Stop Loss Hit"
    ELSE IF trade.type = "BUY" /\ current_price >= trade.target_price THEN "Target Reached"
    ELSE IF trade.type = "SELL" /\ current_price <= trade.target_price THEN "Target Reached"
    ELSE "NONE"

ClosedTrade(trade, reason, exit_price, t) ==
    [id |-> trade.id, symbol |-> trade.symbol, type |-> trade.type,
     entry_price |-> trade.entry_price, exit_price |-> exit_price,
     quantity |-> trade.quantity, reason |-> reason,
     pnl_amount |-> PnlAmount(trade, exit_price), exit_time |-> t]

LastPortfolioValue ==
    IF portfolio_history = <<>> THEN InitialBalance
    ELSE portfolio_history[Len(portfolio_history)]

_close_trade(trade_id, reason, exit_price) ==
    IF trade_id \in Ids(active_trades)
    THEN LET trade == active_trades[IndexOf(active_trades, trade_id)]
             closed_trade == ClosedTrade(trade, reason, exit_price, now)
         IN  /\ total_pnl' = total_pnl + closed_trade.pnl_amount
             /\ trade_history' = Append(trade_history, closed_trade)
             /\ IF DbPathReachable
                THEN /\ trades_db' = Append(trades_db, closed_trade)
                     /\ portfolio_history' =
                            Append(portfolio_history,
                                   LastPortfolioValue + closed_trade.pnl_amount)
                     /\ active_trades_db' = active_trades_db \ {trade_id}
                ELSE UNCHANGED <<trades_db, portfolio_history, active_trades_db>>
             /\ active_trades' = DictDel(active_trades, trade_id)
    ELSE UNCHANGED <<total_pnl, trade_history, trades_db, portfolio_history,
                     active_trades_db, active_trades>>

otherVars == <<autoVars, callVars, threadVars>>

\* IndianAutoTrader.start(): no thread yet, so the loop thread is created
Start ==
    /\ pc = "new"
    /\ running' = TRUE
    /\ pc' = "loop"
    /\ UNCHANGED <<now, cursor, signals, monitor_list, monitor_price, active_trades, trade_history,
                   total_pnl, trades_db, portfolio_history, active_trades_db,
                   iterations, otherVars>>

\* while self.running: if self.trading_system.is_market_open(): ... else: wait
LoopTop ==
    /\ pc = "loop"
    /\ running
    /\ iterations < MaxIter
    /\ iterations' = iterations + 1
    /\ IF is_market_open(now)
       THEN /\ pc' = "signals"
            /\ cursor' = 1
            /\ signals' = <<>>
       ELSE /\ pc' = "sleep"
            /\ UNCHANGED <<cursor, signals>>
    /\ UNCHANGED <<now, running, monitor_list, monitor_price, active_trades, trade_history,
                   total_pnl, trades_db, portfolio_history, active_trades_db,
                   otherVars>>

\* one pass of the for loop of get_all_signals; the sort follows the last pass
GetSignal ==
    /\ pc = "signals"
    /\ cursor <= Len(symbol_list)
    /\ \E data \in MarketData(symbol_list[cursor]) :
         LET signal == analyze_indian_market(symbol_list[cursor], data)
             keep == signal.signal_type # "HOLD"
                     /\ signal.confidence > SignalsMinConfidence
             collected == IF keep THEN Append(signals, signal) ELSE signals
         IN  /\ keep => Opened + Len(signals) < MaxTrades
             /\ IF cursor = Len(symbol_list)
                THEN /\ signals' = SortByConfidence(collected)
                     /\ pc' = "execute"
                ELSE /\ signals' = collected
                     /\ pc' = pc
    /\ cursor' = cursor + 1
    /\ UNCHANGED <<now, running, monitor_list, monitor_price, active_trades, trade_history,
                   total_pnl, trades_db, portfolio_history, active_trades_db,
                   iterations, otherVars>>

\* for signal in signals: if signal.confidence > 0.4: self._execute_trade(signal)
ExecuteTrade ==
    /\ pc = "execute"
    /\ signals # <<>>
    /\ LET signal == Head(signals)
           trade == NewTrade(signal, now)
       IN  IF signal.confidence > LoopMinConfidence
           THEN /\ active_trades' = DictPut(active_trades, trade)
                /\ active_trades_db' = IF DbPathReachable
                                       THEN active_trades_db \cup {trade.id}
                                       ELSE active_trades_db
           ELSE UNCHANGED <<active_trades, active_trades_db>>
    /\ signals' = Tail(signals)
    /\ UNCHANGED <<now, running, pc, cursor, monitor_list, monitor_price, trade_history, total_pnl,
                   trades_db, portfolio_history, iterations, otherVars>>

\* self._monitor_trades(): for trade_id, trade in list(self.active_trades.items())
BeginMonitor ==
    /\ pc = "execute"
    /\ signals = <<>>
    /\ monitor_list' = active_trades
    /\ pc' = "monitor"
    /\ UNCHANGED <<now, running, cursor, signals, monitor_price, active_trades, trade_history,
                   total_pnl, trades_db, portfolio_history, active_trades_db,
                   iterations, otherVars>>

\* one pass of the for loop of _monitor_trades
MonitorTrade ==
    /\ pc = "monitor"
    /\ monitor_list # <<>>
    /\ \E close \in MonitorPrices :
         LET trade == Head(monitor_list)
             reason == MonitorExitReason(trade, close, now)
         IN  /\ monitor_price' = close
             /\ IF close = 0 \/ reason = "NONE"
                THEN UNCHANGED <<total_pnl, trade_history, trades_db,
                                 portfolio_history, active_trades_db, active_trades>>
                ELSE _close_trade(trade.id, reason, close)
    /\ monitor_list' = Tail(monitor_list)
    /\ UNCHANGED <<now, running, pc, cursor, signals, iterations, otherVars>>

\* _monitor_trades returns: its local current_price is gone
EndMonitor ==
    /\ pc = "monitor"
    /\ monitor_list = <<>>
    /\ pc' = "sleep"
    /\ monitor_price' = 0
    /\ UNCHANGED <<now, running, cursor, signals, monitor_list, active_trades,
                   trade_history, total_pnl, trades_db, portfolio_history,
                   active_trades_db, iterations, otherVars>>

\* time.sleep(30), after an iteration that took its processing time
Sleep ==
    /\ pc = "sleep"
    /\ now' = now + LoopSleepSeconds
                  + (IF is_market_open(now) THEN ProcessingSeconds ELSE 0)
    /\ pc' = "loop"
    /\ UNCHANGED <<running, cursor, signals, monitor_list, monitor_price, active_trades,
                   trade_history, total_pnl, trades_db, portfolio_history,
                   active_trades_db, iterations, otherVars>>

\* the next instant at which a time rule of _monitor_trades starts to hold:
\* the guard window opens or an active trade reaches the maximum duration
RECURSIVE EarliestExpiry(_, _)
EarliestExpiry(trades, t) ==
    IF trades = <<>> THEN t
    ELSE EarliestExpiry(Tail(trades),
                        Min(t, Head(trades).entry_epoch + MaxDurationSeconds))

NextTimeRule ==
    EarliestExpiry(active_trades, now - TimeOfDay(now) + GuardStartSec)

\* a run of iterations in which get_all_signals keeps no signal and every
\* monitored close lies between stop and target: nothing but the clock changes.
\* The run ends with the first iteration in which a time rule can hold.
QuietIterations ==
    IF NextTimeRule <= now + LoopSleepSeconds THEN 1
    ELSE (NextTimeRule - now + LoopSleepSeconds - 1) \div LoopSleepSeconds

Quiet ==
    /\ pc = "sleep"
    /\ active_trades # <<>>
    /\ QuietIterations > 1
    /\ now' = now + QuietIterations * LoopSleepSeconds
    /\ pc' = "loop"
    /\ UNCHANGED <<running, cursor, signals, monitor_list, monitor_price, active_trades,
                   trade_history, total_pnl, trades_db, portfolio_history,
                   active_trades_db, iterations, otherVars>>

(***************************************************************************)
(* RiskManager.  Amounts are whole rupees and quantities thousandths of a  *)
(* share.  risk_per_trade and the limits of __init__ are in permille, the  *)
(* adjustment factors and correlations in tenths.  The manager reads the   *)
(* users, positions and trades tables and the price feed; `db` is what     *)
(* those reads return during one call.                                     *)
(***************************************************************************)
NoCheck == [ok |-> FALSE, reason |-> "NONE"]

\* None, as calculate_advanced_position_size returns it
NoQuantity == [returned |-> FALSE, quantity |-> 0]

NoSize == [returned |-> FALSE, quantity |-> 0 - 1]

max_position_size == 20
max_daily_loss == 50
max_drawdown == 150
max_concurrent_trades == 5
correlation_threshold == 7
sector_exposure_limit == 300

\* what get_current_price returns: None, {'price': ...} from the fallbacks, or
\* the comprehensive dictionary
PriceData(kind, price, high, low, volume, change_percent) ==
    [kind |-> kind, price |-> price, high |-> high, low |-> low,
     volume |-> volume, change_percent |-> change_percent]

_get_symbol_sector(symbol) ==
    IF symbol = "RELIANCE" THEN "Energy"
    ELSE IF symbol \in {"TCS", "INFY"} THEN "Technology"
    ELSE IF symbol \in {"HDFCBANK", "ICICIBANK", "SBIN", "KOTAKBANK"} THEN "Banking"
    ELSE IF symbol = "BHARTIARTL" THEN "Telecom"
    ELSE IF symbol = "HINDUNILVR" THEN "FMCG"
    ELSE IF symbol = "BAJFINANCE" THEN "Financial Services"
    ELSE "Other"

RECURSIVE SectorValue(_, _)
SectorValue(positions, sector) ==
    IF positions = <<>> THEN 0
    ELSE (IF /\ _get_symbol_sector(Head(positions).symbol) = sector
             /\ sector # "Other"
             /\ Head(positions).quantity > 0
          THEN Head(positions).quantity * Head(positions).price ELSE 0)
         + SectorValue(Tail(positions), sector)

\* in permille of the portfolio value
get_sector_exposure(db, symbol) ==
    IF ~db.portfolio_known \/ db.portfolio_value = 0 THEN 0
    ELSE IF db.portfolio_value > 0
    THEN (SectorValue(db.positions, _get_symbol_sector(symbol)) * 1000)
             \div db.portfolio_value
    ELSE 0

_calculate_symbol_correlation(symbol1, symbol2) ==
    LET high_correlation_pairs ==
            {{"HDFCBANK", "ICICIBANK"}, {"HDFCBANK", "SBIN"}, {"ICICIBANK", "SBIN"},
             {"TCS", "INFY"}, {"NIFTY50", "SENSEX"}}
        banking_symbols == {"HDFCBANK", "ICICIBANK", "SBIN", "KOTAKBANK"}
        tech_symbols == {"TCS", "INFY"}
    IN  IF \E pair \in high_correlation_pairs : symbol1 \in pair /\ symbol2 \in pair
        THEN 8
        ELSE IF \/ (symbol1 \in banking_symbols /\ symbol2 \in banking_symbols)
                \/ (symbol1 \in tech_symbols /\ symbol2 \in tech_symbols)
        THEN 6
        ELSE 2

\* no position is ever found correlated
check_correlation_riskNever(db, symbol) == FALSE

check_correlation_risk(db, symbol) ==
    \E i \in 1..Len(db.positions) :
        /\ db.positions[i].quantity > 0
        /\ _calculate_symbol_correlation(symbol, db.positions[i].symbol)
               > correlation_threshold

check_risk_limits(db, symbol, quantity) ==
    IF ~db.portfolio_known
    THEN [ok |-> FALSE, reason |-> "Could not retrieve portfolio value"]
    ELSE IF db.price_data.kind = "none"
    THEN [ok |-> FALSE, reason |-> "Could not retrieve current price"]
    ELSE LET portfolio_value == db.portfolio_value
             new_position_value == db.price_data.price * quantity
         IN  IF new_position_value * 1000 > portfolio_value * max_position_size
             THEN [ok |-> FALSE, reason |-> "Position size exceeds 2.0% of portfolio"]
             ELSE IF db.active_trades >= max_concurrent_trades
             THEN [ok |-> FALSE,
                   reason |-> "Maximum concurrent trades limit (5) reached"]
             ELSE IF db.daily_pnl * 1000 < (0 - portfolio_value) * max_daily_loss
             THEN [ok |-> FALSE, reason |-> "Daily loss limit of 5.0% reached"]
             ELSE IF db.drawdown > max_drawdown
             THEN [ok |-> FALSE, reason |-> "Maximum drawdown of 15.0% reached"]
             ELSE IF get_sector_exposure(db, symbol) > sector_exposure_limit
             THEN [ok |-> FALSE, reason |-> "Sector exposure limit of 30.0% reached"]
             ELSE IF check_correlation_risk(db, symbol)
             THEN [ok |-> FALSE, reason |-> "High correlation with existing positions"]
             ELSE [ok |-> TRUE, reason |-> "Risk checks passed"]

\* in permille; a division by a price of 0 is caught and gives the fallback
_calculate_enhanced_volatility(price_data) ==
    IF price_data.kind = "full"
    THEN IF price_data.price = 0 THEN 20
         ELSE Min(((price_data.high - price_data.low) * 1000) \div price_data.price, 100)
    ELSE 20

\* a sizer that ignores the volatility band
_calculate_volatility_adjustmentFlat(volatility) == 10

_calculate_volatility_adjustment(volatility) ==
    IF volatility < 10 THEN 15
    ELSE IF volatility < 20 THEN 12
    ELSE IF volatility < 30 THEN 10
    ELSE IF volatility < 50 THEN 8
    ELSE 5

_calculate_volume_adjustment(price_data) ==
    IF price_data.kind = "full" /\ price_data.volume > 0
    THEN IF price_data.volume > 5000000 THEN 13
         ELSE IF price_data.volume > 2000000 THEN 11
         ELSE IF price_data.volume > 1000000 THEN 10
         ELSE IF price_data.volume > 500000 THEN 9
         ELSE 7
    ELSE 10

_calculate_trend_adjustment(price_data) ==
    IF price_data.kind = "full"
    THEN LET change_percent == IF price_data.change_percent < 0
                               THEN 0 - price_data.change_percent
                               ELSE price_data.change_percent
         IN  IF change_percent > 3 THEN 12
             ELSE IF change_percent > 2 THEN 11
             ELSE IF change_percent > 1 THEN 10
             ELSE 9
    ELSE 10

\* portfolio_value * (0.05 - risk_per_trade)
BaseRiskAmountInverse(portfolio_value, risk_per_trade) ==
    (portfolio_value * (50 - risk_per_trade)) \div 1000

\* base_risk_amount = portfolio_value * risk_per_trade
BaseRiskAmount(portfolio_value, risk_per_trade) ==
    (portfolio_value * risk_per_trade) \div 1000

\* the position size left as computed
ClampNone(min_position, max_position, position_size) == position_size

\* max(min_position, min(max_position, position_size))
Clamp(min_position, max_position, position_size) ==
    LET capped == Min(max_position, position_size)
    IN  IF min_position >= capped THEN min_position ELSE capped

calculate_advanced_position_size(db, symbol, risk_per_trade) ==
    IF ~db.portfolio_known THEN NoQuantity
    ELSE IF db.price_data.kind = "none" THEN NoQuantity
    ELSE LET portfolio_value == db.portfolio_value
             current_price == db.price_data.price
             volatility == _calculate_enhanced_volatility(db.price_data)
             base_risk_amount == BaseRiskAmount(portfolio_value, risk_per_trade)
             volatility_adjustment == _calculate_volatility_adjustment(volatility)
             volume_adjustment == _calculate_volume_adjustment(db.price_data)
             trend_adjustment == _calculate_trend_adjustment(db.price_data)
             correlation_penalty == IF check_correlation_risk(db, symbol) THEN 5 ELSE 10
             adjusted_risk_amount ==
                 (base_risk_amount * volatility_adjustment * volume_adjustment
                  * trend_adjustment * correlation_penalty) \div 10000
         IN  IF current_price = 0 THEN NoQuantity    \* ZeroDivisionError, caught
             ELSE [returned |-> TRUE,
                   quantity |->
                       Clamp((portfolio_value * 5) \div current_price,
                             (portfolio_value * 50) \div current_price,
                             (adjusted_risk_amount * 1000) \div current_price)]

InitAutoTraderIdle ==
    /\ at_active_trades = <<>>
    /\ at_pc = "new"
    /\ at_iterations = 0

InitCombinerIdle ==
    /\ cw_in = <<>>
    /\ cw_out = NoResult

NoSignal == Signal("", "NONE", 0, 0, 0, 0, "NONE")

InitAnalysisIdle ==
    /\ an_in = <<>>
    /\ an_out = NoSignal

InitRiskIdle ==
    /\ rm_in = <<>>
    /\ rm_check = NoCheck
    /\ rm_size = NoSize

InitOpenIdle ==
    /\ at_cursor = 1
    /\ rm_db = <<>>

InitCallsIdle == InitCombinerIdle /\ InitAnalysisIdle /\ InitRiskIdle /\ InitOpenIdle

\* the process may be started at any time: 09:28:58 and 15:28:57 on Monday
InitTrader ==
    /\ now \in {34138, 55737}
    /\ running = FALSE
    /\ pc = "new"
    /\ cursor = 1
    /\ signals = <<>>
    /\ monitor_list = <<>>
    /\ monitor_price = 0
    /\ active_trades = <<>>
    /\ trade_history = <<>>
    /\ total_pnl = 0
    /\ trades_db = <<>>
    /\ portfolio_history = <<>>
    /\ active_trades_db = {}
    /\ iterations = 0
    /\ trading_thread = 0
    /\ loop_threads = <<>>
    /\ request_threads = <<>>

Init == InitTrader /\ InitAutoTraderIdle /\ InitCallsIdle

Next ==
    \/ Start
    \/ LoopTop
    \/ GetSignal
    \/ ExecuteTrade
    \/ BeginMonitor
    \/ MonitorTrade
    \/ EndMonitor
    \/ Sleep
    \/ Quiet

Spec == Init /\ [][Next]_vars

(***************************************************************************)
(* The trading loop left running.  A trade opened on Monday morning is     *)
(* still ACTIVE in the afternoon; the loop keeps iterating with no         *)
(* iteration cap, get_all_signals keeps no further signal, and the clock   *)
(* advances by the sleep of each iteration until LiveHorizon, an instant   *)
(* of Tuesday's session at which the market is open and the trade is older *)
(* than the maximum duration; later instants fall under the same rules.    *)
(***************************************************************************)
InitLive ==
    /\ now = 55737
    /\ running = TRUE
    /\ pc = "execute"
    /\ cursor = Len(symbol_list) + 1
    /\ signals = <<>>
    /\ monitor_list = <<>>
    /\ monitor_price = 0
    /\ \E data \in MarketData(symbol_list[1]) :
         LET signal == analyze_indian_market(symbol_list[1], data)
         IN  /\ signal.signal_type # "HOLD"
             /\ signal.confidence > SignalsMinConfidence
             /\ signal.confidence > LoopMinConfidence
             /\ active_trades = <<NewTrade(signal, 34138)>>
    /\ trade_history = <<>>
    /\ total_pnl = 0
    /\ trades_db = <<>>
    /\ portfolio_history = <<>>
    /\ active_trades_db = {}
    /\ iterations = 1
    /\ trading_thread = 0
    /\ loop_threads = <<>>
    /\ request_threads = <<>>
    /\ InitAutoTraderIdle
    /\ InitCallsIdle

\* while self.running: an iteration whose get_all_signals keeps no signal
LiveLoopTop ==
    /\ pc = "loop"
    /\ running
    /\ IF is_market_open(now)
       THEN /\ pc' = "execute"
            /\ cursor' = Len(symbol_list) + 1
            /\ signals' = <<>>
       ELSE /\ pc' = "sleep"
            /\ UNCHANGED <<cursor, signals>>
    /\ UNCHANGED <<now, running, monitor_list, monitor_price, active_trades, trade_history,
                   total_pnl, trades_db, portfolio_history, active_trades_db,
                   iterations, otherVars>>

\* time.sleep(30) with the clock read up to LiveHorizon
LiveSleep ==
    /\ pc = "sleep"
    /\ now' = Min(LiveHorizon,
                  now + LoopSleepSeconds
                      + (IF is_market_open(now) THEN ProcessingSeconds ELSE 0))
    /\ pc' = "loop"
    /\ UNCHANGED <<running, cursor, signals, monitor_list, monitor_price, active_trades,
                   trade_history, total_pnl, trades_db, portfolio_history,
                   active_trades_db, iterations, otherVars>>

NextLive ==
    \/ LiveLoopTop
    \/ BeginMonitor
    \/ MonitorTrade
    \/ EndMonitor
    \/ LiveSleep

\* the loop thread is a daemon thread of a running process: it keeps taking steps
SpecLive ==
    InitLive /\ [][NextLive]_vars /\ WF_vars(NextLive)

(***************************************************************************)
(* start() and stop() called from request threads (the server runs with    *)
(* async_mode='threading': one thread per request) while the threads they  *)
(* create run _trading_loop.  No lock guards running, trading_thread or    *)
(* active_trades, so the statements of the threads interleave freely.      *)
(* Each loop thread carries its locals: todo is the list                   *)
(* list(self.active_trades.items()) still to visit and closing the         *)
(* arguments of the _close_trade call it is in.  The clock reading stays   *)
(* the same during the interleaving.                                       *)
(***************************************************************************)
InitThreads ==
    /\ now \in {34138, 55770}
    /\ running = FALSE
    /\ pc = "new"
    /\ cursor = 1
    /\ signals = <<>>
    /\ monitor_list = <<>>
    /\ monitor_price = 0
    /\ active_trades = <<>>
    /\ trade_history = <<>>
    /\ total_pnl = 0
    /\ trades_db = <<>>
    /\ portfolio_history = <<>>
    /\ active_trades_db = {}
    /\ iterations = 0
    /\ trading_thread = 0
    /\ loop_threads = <<>>
    /\ request_threads \in [1..MaxRequests -> [op : {"start", "stop"}, pc : {"call"}, joins : {0}]]
    /\ InitAutoTraderIdle
    /\ InitCallsIdle

\* start(): the test of running and trading_thread, and the reset for a dead thread
StartCheck(r) ==
    /\ request_threads[r].op = "start"
    /\ request_threads[r].pc = "call"
    /\ LET has_thread == trading_thread # 0
           is_alive == has_thread /\ loop_threads[trading_thread].pc # "dead"
       IN  IF running /\ has_thread /\ is_alive
           THEN /\ request_threads' = [request_threads EXCEPT ![r].pc = "done"]
                /\ UNCHANGED running
           ELSE /\ request_threads' = [request_threads EXCEPT ![r].pc = "create"]
                /\ running' = IF has_thread /\ ~is_alive THEN FALSE ELSE running
    /\ UNCHANGED <<now, pc, cursor, signals, monitor_list, monitor_price, active_trades,
                   trade_history, total_pnl, trades_db, portfolio_history, active_trades_db,
                   iterations, trading_thread, loop_threads, autoVars, callVars>>

\* start(): self.running = True; self.trading_thread = Thread(...); .start()
StartThread(r) ==
    /\ request_threads[r].op = "start"
    /\ request_threads[r].pc = "create"
    /\ running' = TRUE
    /\ loop_threads' = Append(loop_threads, [pc |-> "while", todo |-> <<>>, closing |-> <<>>])
    /\ trading_thread' = Len(loop_threads) + 1
    /\ request_threads' = [request_threads EXCEPT ![r].pc = "done"]
    /\ UNCHANGED <<now, pc, cursor, signals, monitor_list, monitor_price, active_trades,
                   trade_history, total_pnl, trades_db, portfolio_history, active_trades_db,
                   iterations, autoVars, callVars>>

\* stop(): self.running = False; if self.trading_thread: join it
StopRunning(r) ==
    /\ request_threads[r].op = "stop"
    /\ request_threads[r].pc = "call"
    /\ running' = FALSE
    /\ request_threads' = [request_threads EXCEPT
                              ![r].pc = IF trading_thread # 0 THEN "join" ELSE "done",
                              ![r].joins = trading_thread]
    /\ UNCHANGED <<now, pc, cursor, signals, monitor_list, monitor_price, active_trades,
                   trade_history, total_pnl, trades_db, portfolio_history, active_trades_db,
                   iterations, trading_thread, loop_threads, autoVars, callVars>>

\* stop(): self.trading_thread.join() returns once that thread has ended
StopJoin(r) ==
    /\ request_threads[r].pc = "join"
    /\ loop_threads[request_threads[r].joins].pc = "dead"
    /\ request_threads' = [request_threads EXCEPT ![r].pc = "done"]
    /\ UNCHANGED <<now, running, pc, cursor, signals, monitor_list, monitor_price, active_trades,
                   trade_history, total_pnl, trades_db, portfolio_history, active_trades_db,
                   iterations, trading_thread, loop_threads, autoVars, callVars>>

\* _trading_loop: while self.running, and the market test of the iteration;
\* a thread that finds the market closed sleeps and tests running again
LoopWhile(t) ==
    /\ t <= Len(loop_threads)
    /\ loop_threads[t].pc = "while"
    /\ loop_threads' = [loop_threads EXCEPT
                           ![t].pc = IF ~running THEN "dead"
                                     ELSE IF is_market_open(now) THEN "signals"
                                     ELSE "while"]
    /\ UNCHANGED <<now, running, pc, cursor, signals, monitor_list, monitor_price, active_trades,
                   trade_history, total_pnl, trades_db, portfolio_history, active_trades_db,
                   iterations, trading_thread, request_threads, autoVars, callVars>>

\* the signals of one symbol that get_all_signals keeps and the loop executes,
\* and the neutral signal of a pass that keeps none
LoopSignals ==
    {signal \in {analyze_indian_market(symbol_list[1], data) : data \in MarketData(symbol_list[1])} :
        \/ signal.signal_type = "HOLD"
        \/ signal.confidence > SignalsMinConfidence /\ signal.confidence > LoopMinConfidence}

\* _trading_loop: get_all_signals in which at most the first symbol yields a
\* signal that is kept, _execute_trade for it, and the list _monitor_trades copies
LoopExecute(t) ==
    /\ t <= Len(loop_threads)
    /\ loop_threads[t].pc = "signals"
    /\ \E signal \in LoopSignals :
         LET keep == signal.signal_type # "HOLD"
             trade == NewTrade(signal, now)
         IN  /\ keep => Opened < MaxTrades
             /\ active_trades' = IF keep THEN DictPut(active_trades, trade) ELSE active_trades
             /\ active_trades_db' = IF keep /\ DbPathReachable
                                    THEN active_trades_db \cup {trade.id}
                                    ELSE active_trades_db
    /\ loop_threads' = [loop_threads EXCEPT ![t].pc = "monitor", ![t].todo = active_trades']
    /\ UNCHANGED <<now, running, pc, cursor, signals, monitor_list, monitor_price,
                   trade_history, total_pnl, trades_db, portfolio_history,
                   iterations, trading_thread, request_threads, autoVars, callVars>>

\* one pass of the for loop of _monitor_trades; a pass that calls _close_trade
\* runs it up to the persistence block, the del being the thread's next step.
\* After the last pass the thread sleeps and is back at the while test.
LoopMonitor(t) ==
    /\ t <= Len(loop_threads)
    /\ loop_threads[t].pc = "monitor"
    /\ IF loop_threads[t].todo = <<>>
       THEN /\ loop_threads' = [loop_threads EXCEPT ![t].pc = "while"]
            /\ UNCHANGED <<total_pnl, trade_history, trades_db, portfolio_history,
                           active_trades_db>>
       ELSE \E close \in MonitorPrices :
              LET trade_id == Head(loop_threads[t].todo).id
                  reason == MonitorExitReason(Head(loop_threads[t].todo), close, now)
              IN  IF close = 0 \/ reason = "NONE" \/ trade_id \notin Ids(active_trades)
                  THEN /\ loop_threads' = [loop_threads EXCEPT ![t].todo = Tail(@)]
                       /\ UNCHANGED <<total_pnl, trade_history, trades_db, portfolio_history,
                                      active_trades_db>>
                  ELSE LET trade == active_trades[IndexOf(active_trades, trade_id)]
                           closed_trade == ClosedTrade(trade, reason, close, now)
                       IN  /\ total_pnl' = total_pnl + closed_trade.pnl_amount
                           /\ trade_history' = Append(trade_history, closed_trade)
                           /\ IF DbPathReachable
                              THEN /\ trades_db' = Append(trades_db, closed_trade)
                                   /\ portfolio_history' =
                                          Append(portfolio_history,
                                                 LastPortfolioValue + closed_trade.pnl_amount)
                                   /\ active_trades_db' = active_trades_db \ {trade_id}
                              ELSE UNCHANGED <<trades_db, portfolio_history, active_trades_db>>
                           /\ loop_threads' = [loop_threads EXCEPT ![t].pc = "close",
                                                                   ![t].todo = Tail(@),
                                                                   ![t].closing = <<trade_id>>]
    /\ UNCHANGED <<now, running, pc, cursor, signals, monitor_list, monitor_price, active_trades,
                   iterations, trading_thread, request_threads, autoVars, callVars>>

\* _close_trade: del self.active_trades[trade_id]; the KeyError of a trade
\* that is gone is caught by the except of _close_trade
LoopCloseTrade(t) ==
    /\ t <= Len(loop_threads)
    /\ loop_threads[t].pc = "close"
    /\ active_trades' = IF loop_threads[t].closing[1] \in Ids(active_trades)
                        THEN DictDel(active_trades, loop_threads[t].closing[1])
                        ELSE active_trades
    /\ loop_threads' = [loop_threads EXCEPT ![t].pc = "monitor", ![t].closing = <<>>]
    /\ UNCHANGED <<now, running, pc, cursor, signals, monitor_list, monitor_price,
                   trade_history, total_pnl, trades_db, portfolio_history, active_trades_db,
                   iterations, trading_thread, request_threads, autoVars, callVars>>

NextThreads ==
    \/ \E r \in 1..MaxRequests : StartCheck(r)
    \/ \E r \in 1..MaxRequests : StartThread(r)
    \/ \E r \in 1..MaxRequests : StopRunning(r)
    \/ \E r \in 1..MaxRequests : StopJoin(r)
    \/ \E t \in 1..MaxRequests : LoopWhile(t)
    \/ \E t \in 1..MaxRequests : LoopExecute(t)
    \/ \E t \in 1..MaxRequests : LoopMonitor(t)
    \/ \E t \in 1..MaxRequests : LoopCloseTrade(t)

SpecThreads == InitThreads /\ [][NextThreads]_vars


(***************************************************************************)
(* AutoTrader (auto_trader.py): one enhanced trade under the loop's three  *)
(* passes.  Risk is in 1/10000 of the entry price, scores in percent.      *)
(***************************************************************************)
\* final_risk of _calculate_enhanced_stop_loss_take_profit
FinalRisk(volatility_score, confidence) ==
    LET adjusted_risk == (200 * (100 + 2 * volatility_score)) \div 100
        final_risk == (adjusted_risk * (1000 + (confidence - 75) * 5)) \div 1000
    IN  IF final_risk < 100 THEN 100 ELSE IF final_risk > 500 THEN 500 ELSE final_risk

_calculate_enhanced_stop_loss_take_profit(direction, entry_price, volatility_score, confidence) ==
    LET final_risk == FinalRisk(volatility_score, confidence)
    IN  IF direction = "BUY"
        THEN <<(entry_price * (10000 - final_risk)) \div 10000,
               (entry_price * (10000 + (final_risk * 5) \div 2)) \div 10000>>
        ELSE <<(entry_price * (10000 + final_risk)) \div 10000,
               (entry_price * (10000 - (final_risk * 5) \div 2)) \div 10000>>

\* the trade record _open_enhanced_trade stores
EnhancedTrade(symbol, direction, position_size, entry_price, volatility_score, confidence) ==
    LET sltp == _calculate_enhanced_stop_loss_take_profit(direction, entry_price,
                                                          volatility_score, confidence)
    IN  [symbol |-> symbol, direction |-> direction, quantity |-> position_size,
         entry_price |-> entry_price, stop_loss |-> sltp[1], take_profit |-> sltp[2],
         trailing_stop |-> TRUE]

\* prices risk_manager.get_current_price returns (0: no price)
TickPrices == {0, 95000, 99000, 100000, 101000, 104000}

\* the trade after the unguarded assignment stop_loss = new_stop
_update_trailing_stopAlways(trade, price) ==
    IF price = 0 THEN trade
    ELSE IF trade.direction = "BUY"
    THEN [trade EXCEPT !.stop_loss = price - (trade.entry_price - trade.stop_loss)]
    ELSE [trade EXCEPT !.stop_loss = price + (trade.stop_loss - trade.entry_price)]

\* the trade after _update_trailing_stop read `price`
_update_trailing_stop(trade, price) ==
    IF price = 0 THEN trade
    ELSE IF trade.direction = "BUY"
    THEN IF price > trade.entry_price
         THEN LET new_stop == price - (trade.entry_price - trade.stop_loss)
              IN  IF new_stop > trade.stop_loss
                  THEN [trade EXCEPT !.stop_loss = new_stop]
                  ELSE trade
         ELSE trade
    ELSE IF price < trade.entry_price
         THEN LET new_stop == price + (trade.stop_loss - trade.entry_price)
              IN  IF new_stop < trade.stop_loss
                  THEN [trade EXCEPT !.stop_loss = new_stop]
                  ELSE trade
         ELSE trade

\* AutoTrader.start(): the loop thread begins
AtStart ==
    /\ at_pc = "new"
    /\ at_pc' = "process"
    /\ UNCHANGED <<at_active_trades, at_iterations, callVars, traderVars>>

\* _process_active_trades: stop loss or take profit hit closes the trade
ProcessActiveTrades ==
    /\ at_pc = "process"
    /\ at_iterations < MaxTrailIterations
    /\ at_iterations' = at_iterations + 1
    /\ at_pc' = "auto_update"
    /\ IF at_active_trades = <<>>
       THEN UNCHANGED at_active_trades
       ELSE \E price \in TickPrices :
              LET trade == at_active_trades[1]
                  stop_hit ==
                      \/ trade.direction = "BUY" /\ price <= trade.stop_loss
                      \/ trade.direction = "SELL" /\ price >= trade.stop_loss
                  profit_hit ==
                      \/ trade.direction = "BUY" /\ price >= trade.take_profit
                      \/ trade.direction = "SELL" /\ price <= trade.take_profit
              IN  at_active_trades' =
                      IF price # 0 /\ (stop_hit \/ profit_hit) THEN <<>>
                      ELSE at_active_trades
    /\ UNCHANGED <<callVars, traderVars>>

\* _auto_update_positions: _update_trailing_stop, then _check_exit_conditions
\* (the hold time has run out or not; _calculate_volatility is 0.02, below
\* max_volatility)
AutoUpdatePositions ==
    /\ at_pc = "auto_update"
    /\ at_pc' = "trailing"
    /\ IF at_active_trades = <<>>
       THEN UNCHANGED at_active_trades
       ELSE \E price \in TickPrices, hold_time_over \in BOOLEAN :
              at_active_trades' =
                  IF hold_time_over THEN <<>>
                  ELSE <<_update_trailing_stop(at_active_trades[1], price)>>
    /\ UNCHANGED <<at_iterations, callVars, traderVars>>

\* _update_trailing_stops; _check_enhanced_trading_opportunities comes next
UpdateTrailingStops ==
    /\ at_pc = "trailing"
    /\ at_pc' = "opportunities"
    /\ IF at_active_trades = <<>>
       THEN UNCHANGED at_active_trades
       ELSE \E price \in TickPrices :
              at_active_trades' = <<_update_trailing_stop(at_active_trades[1], price)>>
    /\ UNCHANGED <<at_iterations, callVars, traderVars>>

\* list(self.symbol_token_map.values())[:10], by symbol name
enhanced_symbols ==
    <<"SBIN", "BANKNIFTY", "INFY", "RELIANCE", "TCS", "HDFCBANK", "ICICIBANK",
      "BHARTIARTL", "KOTAKBANK", "BAJFINANCE">>

\* _check_enhanced_trading_opportunities returns, before its for loop (the
\* feed is not connected or the fetch failed) or after it, and time.sleep(30)
AtSleep ==
    /\ at_pc = "opportunities"
    /\ at_cursor = 1 \/ at_cursor > Len(enhanced_symbols)
    /\ at_pc' = "process"
    /\ at_cursor' = 1
    /\ UNCHANGED <<at_active_trades, at_iterations, rm_db, combinerVars, analysisVars,
                   riskVars, traderVars>>

InitTrail ==
    /\ InitTrader /\ now = 34138
    /\ InitCallsIdle
    /\ at_pc = "new"
    /\ at_iterations = 0
    /\ \E direction \in {"BUY", "SELL"}, entry_price \in {100000},
          volatility_score \in {0, 50, 100}, confidence \in {75, 100} :
          at_active_trades =
              <<EnhancedTrade("SBIN", direction, 1000, entry_price, volatility_score,
                              confidence)>>

NextTrail ==
    \/ AtStart
    \/ ProcessActiveTrades
    \/ AutoUpdatePositions
    \/ UpdateTrailingStops
    \/ AtSleep

SpecTrail == InitTrail /\ [][NextTrail]_vars

(***************************************************************************)
(* _combine_weighted_signals applied to lists of weighted results.         *)
(***************************************************************************)
MaxStrategies == 3
CombinePrice == CHOOSE p \in EntryPrices : TRUE
ResultOfType(t) ==
    IF t = "BUY" THEN StrategyResult("BUY", 70, 102000, 98000, "Strategy")
    ELSE IF t = "SELL" THEN StrategyResult("SELL", 70, 98000, 102000, "Strategy")
    ELSE StrategyResult("HOLD", 30, CombinePrice, CombinePrice, "Strategy")

\* weights in tenths: those _apply_indian_strategies uses, and 0
WeightedResults ==
    {<<ResultOfType(t), w>> : t \in {"BUY", "SELL", "HOLD"}, w \in {0, 3, 4, 7}}

Combine ==
    /\ cw_out = NoResult
    /\ cw_out' = _combine_weighted_signals(cw_in, CombinePrice)
    /\ UNCHANGED <<cw_in, analysisVars, riskVars, openVars, autoVars, traderVars>>

InitCombine ==
    /\ InitTrader /\ now = 34138
    /\ InitAutoTraderIdle
    /\ InitOpenIdle
    /\ InitAnalysisIdle
    /\ InitRiskIdle
    /\ cw_out = NoResult
    /\ \E n \in 0..MaxStrategies : cw_in \in [1..n -> WeightedResults]

SpecCombine == InitCombine /\ [][Combine]_vars

(***************************************************************************)
(* analyze_indian_market applied to each symbol of indian_symbols and each *)
(* snapshot the provider can hand it.                                      *)
(***************************************************************************)
AnalysisData ==
    {EmptyData} \cup IndexData \cup StockData
    \cup {[d EXCEPT !.sma50 = s, !.macd = m, !.macd_signal = 100] :
             d \in StockData, s \in {99000, 103000}, m \in {0, 200}}

\* What analyze_indian_market is handed for one symbol of indian_symbols:
\* the provider's bars when it has a provider and the bars are not empty,
\* and otherwise (no provider, no bars, an exception) the mock series
get_indian_market_data(provider, data, mock) ==
    IF provider = "unavailable" THEN mock
    ELSE IF provider = "raises" THEN mock
    ELSE IF ~data.empty THEN data
    ELSE mock

Analyze ==
    /\ an_out = NoSignal
    /\ an_out' = analyze_indian_market(an_in.symbol,
                     get_indian_market_data(an_in.provider, an_in.data, an_in.mock))
    /\ UNCHANGED <<an_in, combinerVars, riskVars, openVars, autoVars, traderVars>>

\* the mock series of _generate_mock_data for period '1mo', interval '1d' has
\* 30 daily bars, so its 50-bar average is NaN; it is an empty frame when the
\* generation itself fails
InitAnalyze ==
    /\ InitTrader /\ now = 34138
    /\ InitAutoTraderIdle
    /\ InitOpenIdle
    /\ InitCombinerIdle
    /\ InitRiskIdle
    /\ an_out = NoSignal
    /\ an_in \in [symbol : {indian_symbols[i] : i \in 1..Len(indian_symbols)}, provider : {"bars"},
                  data : AnalysisData \ {EmptyData}, mock : {EmptyData}]
                \cup [symbol : {indian_symbols[i] : i \in 1..Len(indian_symbols)},
                      provider : {"bars", "unavailable", "raises"},
                      data : {EmptyData}, mock : {d \in IndexData \cup StockData : d.sma50 = NaN} \cup {EmptyData}]

SpecAnalyze == InitAnalyze /\ [][Analyze]_vars

(***************************************************************************)
(* _calculate_indian_indicators on a series of daily bars.  A series is    *)
(* given by its closes and one traded volume for every bar; a rolling      *)
(* window of pandas yields NaN until the series holds `window` bars.       *)
(***************************************************************************)
MaxBars == 60

\* the rolling-window keys of the snapshot; macd and macd_signal (ewm, no
\* window) and the level lists are left out
_calculate_indian_indicators(close_prices, volume) ==
    LET n == Len(close_prices)
        last == close_prices[n]
        RECURSIVE SumLast(_, _)
        SumLast(f, k) == IF k = 0 THEN 0 ELSE f[n - k + 1] + SumLast(f, k - 1)
        rolling_mean(f, window) == IF n < window THEN NaN
                                   ELSE SumLast(f, window) \div window
        delta == [i \in 1..n |-> IF i = 1 THEN 0
                                 ELSE close_prices[i] - close_prices[i - 1]]
        gain == SumLast([i \in 1..n |-> IF delta[i] > 0 THEN delta[i] ELSE 0], 14)
        loss == SumLast([i \in 1..n |-> IF delta[i] < 0 THEN 0 - delta[i] ELSE 0], 14)
        rsi == IF n < 14 THEN NaN
               ELSE IF gain + loss = 0 THEN NaN
               ELSE (100 * gain) \div (gain + loss)
        sma20 == rolling_mean(close_prices, 20)
        squares == [i \in 1..n |-> (close_prices[i] - sma20) * (close_prices[i] - sma20)]
        variance == SumLast(squares, 20) \div 19
        std20 == CHOOSE r \in 0..2000 : r * r <= variance /\ variance < (r + 1) * (r + 1)
        volume_sma == rolling_mean([i \in 1..n |-> volume], 20)
    IN  [rsi |-> rsi,
         bb_upper |-> IF n < 20 THEN NaN ELSE sma20 + (std20 * 22) \div 10,
         bb_lower |-> IF n < 20 THEN NaN ELSE sma20 - (std20 * 22) \div 10,
         sma50 |-> rolling_mean(close_prices, 50),
         sma200 |-> rolling_mean(close_prices, 200),
         volume_ratio |-> IF n < 20 THEN NaN ELSE (volume * 10) \div volume_sma,
         price |-> last]

CalculateIndianIndicators ==
    /\ an_out = NoSignal
    /\ an_out' = _calculate_indian_indicators(an_in.close_prices, an_in.volume)
    /\ UNCHANGED <<an_in, combinerVars, riskVars, openVars, autoVars, traderVars>>

\* n closes that start near 100.000 and move by `step` per bar
InitIndicators ==
    /\ InitTrader /\ now = 34138
    /\ InitAutoTraderIdle
    /\ InitOpenIdle
    /\ InitCombinerIdle
    /\ InitRiskIdle
    /\ an_out = NoSignal
    /\ \E n \in 1..MaxBars, step \in {0 - 100, 0, 100} :
          an_in = [close_prices |-> [i \in 1..n |-> 100000 + step * i], volume |-> 500000]

SpecIndicators == InitIndicators /\ [][CalculateIndianIndicators]_vars

(***************************************************************************)
(* check_risk_limits and calculate_advanced_position_size applied to what  *)
(* the tables and the price feed can hold.                                 *)
(***************************************************************************)
RiskPerTrades == {0 - 10, 0, 10, 20, 50}

PriceDatas ==
    {PriceData("none", 0, 0, 0, 0, 0), PriceData("basic", 1000, 0, 0, 0, 0),
     PriceData("full", 0, 0, 0, 0, 0),
     PriceData("full", 2500, 2550, 2500, 1500000, 2)}
    \cup {PriceData("full", 1000, 1000 + range, 1000, volume, change_percent) :
            range \in {4, 15, 25, 40, 60},
            volume \in {0, 400000, 800000, 1500000, 3000000, 6000000},
            change_percent \in {0 - 4, 0, 2, 3}}
    \cup {PriceData("full", 100, 102, 98, volume, 4) :
            volume \in {2, 400000, 3000000, 6000000}}

\* portfolio_value is the cash balance plus position value (a restored or
\* edited table can hold any sum); positions are the rows of the positions
\* table with quantity > 0, with the price of each symbol
RiskDbs ==
    {db \in [portfolio_known : BOOLEAN, portfolio_value : {0 - 100000, 0, 100000},
             price_data : PriceDatas, active_trades : {0, 5},
             daily_pnl : {0, 0 - 6000}, drawdown : {0, 200},
             positions : {<<>>} \cup {<<[symbol |-> held[1], quantity |-> held[2], price |-> 1000]>> : held \in {<<"HDFCBANK", 10>>, <<"HDFCBANK", 40>>, <<"SENSEX", 10>>}}] :
        db.portfolio_known \/ db.portfolio_value = 0}

\* the callers pass quantity 1.0
RiskInputs ==
    [symbol : {"KOTAKBANK", "ICICIBANK", "TCS", "NIFTY50"}, quantity : {1}, risk_per_trade : RiskPerTrades, db : RiskDbs]

CheckRiskLimits ==
    /\ rm_in # <<>>
    /\ rm_check = NoCheck
    /\ rm_check' = check_risk_limits(rm_in.db, rm_in.symbol, rm_in.quantity)
    /\ UNCHANGED <<rm_in, rm_size, combinerVars, analysisVars, openVars, autoVars,
                   traderVars>>

CalculateAdvancedPositionSize ==
    /\ rm_in # <<>>
    /\ rm_size = NoSize
    /\ rm_size' = calculate_advanced_position_size(rm_in.db, rm_in.symbol,
                                                    rm_in.risk_per_trade)
    /\ UNCHANGED <<rm_in, rm_check, combinerVars, analysisVars, openVars, autoVars,
                   traderVars>>

InitRisk ==
    /\ InitTrader /\ now = 34138
    /\ InitAutoTraderIdle
    /\ InitOpenIdle
    /\ InitCombinerIdle
    /\ InitAnalysisIdle
    /\ rm_in \in RiskInputs
    /\ rm_check = NoCheck
    /\ rm_size = NoSize

NextRisk ==
    \/ CheckRiskLimits
    \/ CalculateAdvancedPositionSize

SpecRisk == InitRisk /\ [][NextRisk]_vars

(***************************************************************************)
(* One pass of _check_enhanced_trading_opportunities over the symbols it    *)
(* fetches.  Prices of this pass are whole rupees, as RiskManager's;        *)
(* scores and confidences are in percent of 1.0.                            *)
(***************************************************************************)
_can_open_position_enhanced(db, trades, symbol, signal_analysis) ==
    /\ check_risk_limits(db, symbol, 1).ok
    /\ ~\E i \in 1..Len(trades) : trades[i].symbol = symbol
    /\ ~(signal_analysis.volume_score < 50)
    /\ ~(signal_analysis.volatility_score > 3)
    /\ ~(signal_analysis.confidence < 75)

\* self.active_trades after _open_enhanced_trade; entry_price is the ltp
_open_enhanced_trade(db, trades, symbol, direction, signal_analysis, entry_price) ==
    LET position_size == calculate_advanced_position_size(db, symbol, 20)
    IN  IF ~position_size.returned \/ position_size.quantity = 0 THEN trades
        ELSE Append(trades,
                    EnhancedTrade(symbol, direction, position_size.quantity,
                                  entry_price, signal_analysis.volatility_score,
                                  signal_analysis.confidence))

\* the keys of generate_enhanced_signal's result the opener reads
SignalAnalyses ==
    {[signal |-> a[1], confidence |-> a[2], volume_score |-> a[3],
      volatility_score |-> a[4]] :
        a \in {<<"HOLD", 0, 100, 0>>, <<"BUY", 80, 100, 1>>, <<"SELL", 70, 100, 1>>,
               <<"BUY", 80, 30, 1>>}}

\* what the feed returns for one symbol during the pass
OpenPriceDatas ==
    {PriceData("none", 0, 0, 0, 0, 0),
     PriceData("full", 1000, 1004, 1000, 6000000, 4),
     PriceData("full", 2500, 2510, 2500, 6000000, 4)}

OpenDbs ==
    {db \in RiskDbs :
        /\ db.portfolio_known
        /\ db.portfolio_value = 100000
        /\ db.price_data.kind = "none"
        /\ db.daily_pnl = 0
        /\ db.drawdown = 0
        /\ Len(db.positions) > 0 => db.positions[1].symbol = "SENSEX"}

\* the body of the for loop for the token at at_cursor: the signal's entry
\* price is the ltp of the batch fetch, and check_risk_limits and the sizer
\* each fetch the symbol's quote again through get_current_price
OpenAttempt ==
    /\ rm_db # <<>>
    /\ at_cursor <= Len(enhanced_symbols)
    /\ \E signal_analysis \in SignalAnalyses, check_data \in OpenPriceDatas,
          size_data \in OpenPriceDatas :
          LET symbol == enhanced_symbols[at_cursor]
              \* the symbol's entry of the batch fetch_market_data_direct of the pass
              token_data == (PriceData("full", 1000, 1004, 1000, 6000000, 4))
          IN  at_active_trades' =
                  IF /\ signal_analysis.signal \in {"BUY", "SELL"}
                     /\ signal_analysis.confidence >= 75
                     /\ _can_open_position_enhanced(
                            [rm_db EXCEPT !.price_data = check_data],
                            at_active_trades, symbol, signal_analysis)
                  THEN _open_enhanced_trade(
                           [rm_db EXCEPT !.price_data = size_data],
                           at_active_trades, symbol, signal_analysis.signal,
                           signal_analysis, token_data.price)
                  ELSE at_active_trades
    /\ at_cursor' = at_cursor + 1
    /\ UNCHANGED <<rm_db, at_pc, at_iterations, combinerVars, analysisVars, riskVars,
                   traderVars>>

InitOpen ==
    /\ InitTrader /\ now = 34138
    /\ InitCombinerIdle
    /\ InitAnalysisIdle
    /\ InitRiskIdle
    /\ at_active_trades = <<>>
    /\ at_pc = "opportunities"
    /\ at_iterations = 1
    /\ at_cursor = 1
    /\ rm_db \in OpenDbs

SpecOpen == InitOpen /\ [][OpenAttempt]_vars

(***************************************************************************)
(* The AutoTrader loop with the signals of generate_enhanced_signal.       *)
(* percentChange is in percent, scores and confidences in percent of 1.0.  *)
(***************************************************************************)
\* the entries of market_data['data']['fetched']
TokenDatas ==
    [ltp : {1000}, high : {1010, 1050}, low : {1000},
     tradeVolume : {400000, 6000000}, percentChange : {0 - 70, 0 - 3, 0, 3, 70},
     week52High : {1005, 2000}, week52Low : {900}]

\* generate_enhanced_signal with a volume condition the capped score can meet
generate_enhanced_signalHalfVolume(token_data) ==
    LET ltp == token_data.ltp
        change_percent == token_data.percentChange
        volume_score == Min((token_data.tradeVolume * 100) \div 1000000, 100)
        volatility_score == IF ltp > 0
                            THEN ((token_data.high - token_data.low) * 100) \div ltp
                            ELSE 0
        trend_strength == IF change_percent < 0 THEN 0 - change_percent
                          ELSE change_percent
        week_52_range == token_data.week52High - token_data.week52Low
        position_in_range == IF week_52_range > 0
                             THEN ((ltp - token_data.week52Low) * 100) \div week_52_range
                             ELSE 50
        buy == /\ change_percent * 10 > 25 /\ volume_score > 50
               /\ volatility_score < 2 /\ trend_strength > 60
        sell == /\ change_percent * 10 < 0 - 25 /\ volume_score > 50
                /\ volatility_score < 2 /\ trend_strength > 60
        confidence ==
            IF buy
            THEN Min(80 + ((change_percent * 10 - 25) * 5) \div 10
                        + (volume_score * 15) \div 100, 95)
            ELSE IF sell
            THEN Min(80 + ((0 - (change_percent * 10 + 25)) * 5) \div 10
                        + (volume_score * 15) \div 100, 95)
            ELSE 0
    IN  [signal |-> IF buy THEN "BUY" ELSE IF sell THEN "SELL" ELSE "HOLD",
         confidence |-> IF position_in_range < 20 \/ position_in_range > 80
                        THEN (confidence * 8) \div 10 ELSE confidence,
         entry_price |-> ltp,
         volume_score |-> volume_score,
         volatility_score |-> volatility_score]

generate_enhanced_signal(token_data) ==
    LET ltp == token_data.ltp
        change_percent == token_data.percentChange
        volume_score == Min((token_data.tradeVolume * 100) \div 1000000, 100)
        volatility_score == IF ltp > 0
                            THEN ((token_data.high - token_data.low) * 100) \div ltp
                            ELSE 0
        trend_strength == IF change_percent < 0 THEN 0 - change_percent
                          ELSE change_percent
        week_52_range == token_data.week52High - token_data.week52Low
        position_in_range == IF week_52_range > 0
                             THEN ((ltp - token_data.week52Low) * 100) \div week_52_range
                             ELSE 50
        buy == /\ change_percent * 10 > 25 /\ volume_score > 150
               /\ volatility_score < 2 /\ trend_strength > 60
        sell == /\ change_percent * 10 < 0 - 25 /\ volume_score > 150
                /\ volatility_score < 2 /\ trend_strength > 60
        confidence ==
            IF buy
            THEN Min(80 + ((change_percent * 10 - 25) * 5) \div 10
                        + (volume_score * 15) \div 100, 95)
            ELSE IF sell
            THEN Min(80 + ((0 - (change_percent * 10 + 25)) * 5) \div 10
                        + (volume_score * 15) \div 100, 95)
            ELSE 0
    IN  [signal |-> IF buy THEN "BUY" ELSE IF sell THEN "SELL" ELSE "HOLD",
         confidence |-> IF position_in_range < 20 \/ position_in_range > 80
                        THEN (confidence * 8) \div 10 ELSE confidence,
         entry_price |-> ltp,
         volume_score |-> volume_score,
         volatility_score |-> volatility_score]

\* the body of the for loop for the token at at_cursor, with the analysis
\* generate_enhanced_signal makes of the token's entry in the batch
CheckEnhancedOpportunity ==
    /\ at_pc = "opportunities"
    /\ rm_db # <<>>
    /\ at_cursor <= Len(enhanced_symbols)
    /\ \E token_data \in TokenDatas, check_data \in OpenPriceDatas,
          size_data \in OpenPriceDatas :
          LET symbol == enhanced_symbols[at_cursor]
              signal_analysis == generate_enhanced_signal(token_data)
          IN  at_active_trades' =
                  IF /\ signal_analysis.signal \in {"BUY", "SELL"}
                     /\ signal_analysis.confidence >= 75
                     /\ _can_open_position_enhanced(
                            [rm_db EXCEPT !.price_data = check_data],
                            at_active_trades, symbol, signal_analysis)
                  THEN _open_enhanced_trade(
                           [rm_db EXCEPT !.price_data = size_data],
                           at_active_trades, symbol, signal_analysis.signal,
                           signal_analysis, signal_analysis.entry_price)
                  ELSE at_active_trades
    /\ at_cursor' = at_cursor + 1
    /\ UNCHANGED <<rm_db, at_pc, at_iterations, combinerVars, analysisVars, riskVars,
                   traderVars>>

\* a new AutoTrader: active_trades = {}
InitLoop ==
    /\ InitTrader /\ now = 34138
    /\ InitCombinerIdle
    /\ InitAnalysisIdle
    /\ InitRiskIdle
    /\ at_active_trades = <<>>
    /\ at_pc = "new"
    /\ at_iterations = 0
    /\ at_cursor = 1
    /\ rm_db \in OpenDbs

NextLoop ==
    \/ AtStart
    \/ ProcessActiveTrades
    \/ AutoUpdatePositions
    \/ UpdateTrailingStops
    \/ CheckEnhancedOpportunity
    \/ AtSleep

SpecLoop == InitLoop /\ [][NextLoop]_vars

(***************************************************************************)
(* Properties of the IndianAutoTrader ledger.                              *)
(***************************************************************************)
SymbolsOf(trades) == {trades[i].symbol : i \in 1..Len(trades)}

RECURSIVE SumPnl(_)
SumPnl(history) ==
    IF history = <<>> THEN 0 ELSE Head(history).pnl_amount + SumPnl(Tail(history))

LastClosed(history) == history[Len(history)]

\* the four exit conditions, each on its own
MarketCloseApplies(t) == GuardStartSec <= TimeOfDay(t) /\ TimeOfDay(t) <= GuardEndSec
MaxDurationApplies(trade, t) == t - trade.entry_epoch >= MaxDurationSeconds
StopLossApplies(trade, price) ==
    \/ trade.type = "BUY" /\ price <= trade.stop_loss
    \/ trade.type = "SELL" /\ price >= trade.stop_loss
TargetApplies(trade, price) ==
    \/ trade.type = "BUY" /\ price >= trade.target_price
    \/ trade.type = "SELL" /\ price <= trade.target_price

\* a step of the monitor loop that visits a trade still in the active set and
\* gets a close for it
MonitorVisit ==
    /\ pc = "monitor"
    /\ monitor_list # <<>>
    /\ monitor_list' = Tail(monitor_list)
    /\ Head(monitor_list).id \in Ids(active_trades)
    /\ monitor_price' # 0

\* C1: at any instant the active set holds at most one trade per symbol (the
\* trader has one user, so a (symbol, user) pair is a symbol)
C1_OneActivePerSymbol ==
    \A i, j \in 1..Len(active_trades) :
        active_trades[i].symbol = active_trades[j].symbol => i = j

\* C2: a monitor tick closes a trade under at most one rule, and the rule is the
\* first that applies in the order Market Close Exit, Max Duration Exit,
\* Stop Loss Hit, Target Reached
C2_ExitPriority ==
    [][MonitorVisit =>
        LET trade == Head(monitor_list)
            price == monitor_price'
            expected ==
                IF MarketCloseApplies(now) THEN "Market Close Exit"
                ELSE IF MaxDurationApplies(trade, now) THEN "Max Duration Exit"
                ELSE IF StopLossApplies(trade, price) THEN "Stop Loss Hit"
                ELSE IF TargetApplies(trade, price) THEN "Target Reached"
                ELSE "NONE"
        IN  IF expected = "NONE"
            THEN trade_history' = trade_history /\ active_trades' = active_trades
            ELSE /\ Len(trade_history') = Len(trade_history) + 1
                 /\ SubSeq(trade_history', 1, Len(trade_history)) = trade_history
                 /\ LastClosed(trade_history').id = trade.id
                 /\ LastClosed(trade_history').reason = expected
                 /\ trade.id \notin Ids(active_trades')]_vars

\* C2 witness: a trade past the maximum duration, at a close at or beyond its
\* stop, was closed inside the guard window as Market Close Exit
C2_Witness ==
    \E i \in 1..Len(trade_history) :
        LET h == trade_history[i]
        IN  /\ h.reason = "Market Close Exit"
            /\ h.exit_time - h.id[2] >= MaxDurationSeconds
            /\ h.type = "BUY"
            /\ h.exit_price < h.entry_price

\* C3: after an iteration that ticks inside the guard window 15:29:30-15:31:00
\* no trade is left active
C3_GuardWindowClosesAll ==
    (pc = "sleep" /\ running /\ InGuardWindow(now)) => active_trades = <<>>

C5_StopLossBoundary ==
    [][(/\ MonitorVisit
        /\ ~MarketCloseApplies(now)
        /\ ~MaxDurationApplies(Head(monitor_list), now)
        /\ StopLossApplies(Head(monitor_list), monitor_price')) =>
        LET trade == Head(monitor_list)
            price == monitor_price'
            pnl == IF trade.type = "BUY"
                   THEN (price - trade.entry_price) * trade.quantity
                   ELSE (trade.entry_price - price) * trade.quantity
        IN  /\ trade.id \notin Ids(active_trades')
            /\ Len(trade_history') = Len(trade_history) + 1
            /\ LastClosed(trade_history').id = trade.id
            /\ LastClosed(trade_history').reason = "Stop Loss Hit"
            /\ LastClosed(trade_history').exit_price = price
            /\ LastClosed(trade_history').pnl_amount = pnl
            /\ total_pnl' = total_pnl + pnl]_vars

\* C5 witness: a BUY entered at 100.000 with stop 98.000 was closed at exactly
\* 98.000 as Stop Loss Hit, and a SELL was closed at its stop as well
C5_Witness ==
    /\ \E i \in 1..Len(trade_history) :
          LET h == trade_history[i]
          IN  /\ h.reason = "Stop Loss Hit" /\ h.type = "BUY"
              /\ h.entry_price = 100000 /\ h.exit_price = 98000
              /\ h.pnl_amount = (0 - 2000) * h.quantity
    /\ \E i \in 1..Len(trade_history) :
          LET h == trade_history[i]
          IN  /\ h.reason = "Stop Loss Hit" /\ h.type = "SELL"
              /\ h.exit_price = 102000
              /\ h.pnl_amount = (0 - 2000) * h.quantity

\* C6: every appended closed trade is also in the persistent trades store, and
\* each close adds a portfolio_history value equal to the previous value (or
\* initial_balance) plus its pnl
C6_ClosePersisted ==
    /\ trades_db = trade_history
    /\ Len(portfolio_history) = Len(trade_history)
    /\ \A i \in 1..Len(portfolio_history) :
          portfolio_history[i] =
              (IF i = 1 THEN InitialBalance ELSE portfolio_history[i - 1])
              + trade_history[i].pnl_amount

\* C8: an open for a symbol that already has an active trade leaves the active
\* set as it was
C8_DuplicateOpenRejected ==
    [][(/\ pc = "execute"
        /\ signals # <<>>
        /\ Head(signals).symbol \in SymbolsOf(active_trades)) =>
           active_trades' = active_trades]_vars

\* C9: a trade joins the active set only for a BUY or SELL signal whose
\* confidence is above the trading threshold, with a positive quantity, for a
\* symbol that has no active trade
C9_EntryConditions ==
    [][\A i \in 1..Len(active_trades') :
          active_trades'[i].id \notin Ids(active_trades) =>
              /\ pc = "execute"
              /\ signals # <<>>
              /\ Head(signals).signal_type \in {"BUY", "SELL"}
              /\ Head(signals).confidence > LoopMinConfidence
              /\ active_trades'[i].symbol = Head(signals).symbol
              /\ active_trades'[i].quantity > 0
              /\ active_trades'[i].symbol \notin SymbolsOf(active_trades)]_vars

(***************************************************************************)
(* Properties of the AutoTrader trailing stop and of the combiner.         *)
(***************************************************************************)
\* C7: while a trade stays in AutoTrader's active set, no step lowers the
\* stop_loss of a BUY or raises the stop_loss of a SELL, so a stop that is
\* replaced is replaced by a strictly better one
C7_TrailingStopMonotone ==
    [][(at_active_trades # <<>> /\ at_active_trades' # <<>>) =>
        LET old == at_active_trades[1]
            new == at_active_trades'[1]
        IN  /\ old.direction = "BUY" => new.stop_loss >= old.stop_loss
            /\ old.direction = "SELL" => new.stop_loss <= old.stop_loss
            /\ new.entry_price = old.entry_price
            /\ new.direction = old.direction]_vars

\* C7 witness: a BUY whose stop has been trailed above its entry price
C7_Witness ==
    /\ at_active_trades # <<>>
    /\ at_active_trades[1].direction = "BUY"
    /\ at_active_trades[1].stop_loss > at_active_trades[1].entry_price

RECURSIVE WeightOf(_, _, _)
WeightOf(results, t, n) ==
    IF n = 0 THEN 0
    ELSE WeightOf(results, t, n - 1)
         + (IF results[n][1].type = t THEN results[n][2] ELSE 0)

\* C10: the combiner returns BUY when buy_weight > sell_weight, otherwise SELL
\* when sell_weight > 0, otherwise HOLD
C10_WinnerSelection ==
    (cw_out # NoResult) =>
        LET buy == WeightOf(cw_in, "BUY", Len(cw_in))
            sell == WeightOf(cw_in, "SELL", Len(cw_in))
        IN  /\ buy > sell => cw_out.type = "BUY"
            /\ (buy <= sell /\ sell > 0) => cw_out.type = "SELL"
            /\ (buy <= sell /\ sell = 0) => cw_out.type = "HOLD"

\* C10 witness: equal non-zero BUY and SELL weights, outweighed by HOLD, gave
\* SELL
C10_Witness ==
    /\ (cw_out # NoResult)
    /\ WeightOf(cw_in, "BUY", Len(cw_in)) = WeightOf(cw_in, "SELL", Len(cw_in))
    /\ WeightOf(cw_in, "SELL", Len(cw_in)) > 0
    /\ WeightOf(cw_in, "HOLD", Len(cw_in)) > WeightOf(cw_in, "SELL", Len(cw_in))
    /\ cw_out.type = "SELL"

\* C11: the combined confidence is the winning type's weight divided by the
\* total weight (in percent) and lies in [0, 100]; an empty list or a total
\* weight of 0 gives HOLD with confidence 0 and target = stop_loss = price
C11_CombinedConfidence ==
    (cw_out # NoResult) =>
        LET n == Len(cw_in)
            total == WeightOf(cw_in, "BUY", n) + WeightOf(cw_in, "SELL", n)
                     + WeightOf(cw_in, "HOLD", n)
        IN  IF n = 0 \/ total = 0
            THEN /\ cw_out.type = "HOLD"
                 /\ cw_out.confidence = 0
                 /\ cw_out.target = CombinePrice
                 /\ cw_out.stop_loss = CombinePrice
            ELSE /\ cw_out.confidence
                      = (WeightOf(cw_in, cw_out.type, n) * 100) \div total
                 /\ 0 <= cw_out.confidence
                 /\ cw_out.confidence <= 100

\* C11 witness: BUY with weight 0.4 against HOLD weights 0.3 and 0.3 gave
\* confidence 40 percent
C11_Witness ==
    /\ (cw_out # NoResult)
    /\ Len(cw_in) = 3
    /\ WeightOf(cw_in, "BUY", 3) = 4
    /\ WeightOf(cw_in, "HOLD", 3) = 6
    /\ cw_out.type = "BUY"
    /\ cw_out.confidence = 40

(***************************************************************************)
(* Properties of analyze_indian_market.                                    *)
(***************************************************************************)
\* C12: for the symbol BANKNIFTY the signal is the combination of exactly the
\* BANKNIFTY volatility strategy with weight 0.5 and the enhanced breakout
\* strategy with weight 0.5, not of the momentum / mean-reversion /
\* trend-following set of the NIFTY index symbols
C12_BankNiftyStrategies ==
    ((an_out # NoSignal) /\ an_in.symbol = "BANKNIFTY" /\ ~an_in.data.empty) =>
        LET current_price == an_in.data.price
            expected == _combine_weighted_signals(
                << <<banknifty_volatility_strategy(current_price, an_in.data), 5>>,
                   <<enhanced_breakout_strategy(current_price, an_in.data), 5>> >>,
                current_price)
        IN  /\ an_out.signal_type = expected.type
            /\ an_out.confidence = expected.confidence
            /\ an_out.target_price = expected.target
            /\ an_out.stop_loss = expected.stop_loss

\* C13: every signal analyze_indian_market returns has risk_reward_ratio >= 0,
\* and exactly 0 when the signal is HOLD or its stop equals the entry price
C13_RiskRewardNonNegative ==
    (an_out # NoSignal) =>
        /\ an_out.risk_reward_ratio >= 0
        /\ (an_out.signal_type = "HOLD" \/ an_out.stop_loss = an_out.entry_price)
               => an_out.risk_reward_ratio = 0

\* C23: when the market data provider is unavailable or returns an empty bar
\* sequence, analyze_indian_market returns the neutral HOLD signal with
\* confidence 0, and so no BUY or SELL signal for that symbol
C23_NeutralWithoutProviderData ==
    ((an_out # NoSignal) /\ (an_in.provider # "bars" \/ an_in.data.empty)) =>
        /\ an_out.signal_type = "HOLD"
        /\ an_out.confidence = 0

\* C22: for a bar series shorter than an indicator's window (14 bars for
\* RSI, 20 for the Bollinger bands, 50 for SMA50) the snapshot holds that
\* indicator's neutral default (RSI 50, bands and averages equal to the last
\* price), and no rolling-window indicator is ever NaN
C22_NeutralDefaultsOnShortSeries ==
    an_out # NoSignal =>
        LET n == Len(an_in.close_prices)
            last == an_in.close_prices[n]
        IN  /\ n < 14 => an_out.rsi = 50
            /\ n < 20 => an_out.bb_upper = last /\ an_out.bb_lower = last
            /\ n < 50 => an_out.sma50 = last
            /\ an_out.rsi # NaN /\ an_out.bb_upper # NaN /\ an_out.bb_lower # NaN
            /\ an_out.sma50 # NaN /\ an_out.sma200 # NaN
            /\ an_out.volume_ratio # NaN

\* C30: for the large-cap symbols RELIANCE, TCS, HDFCBANK and INFY the signal
\* built from the indicator snapshot is HOLD for every bar series, because
\* large_cap_strategy and stock_momentum_strategy read keys the snapshot lacks
C30_LargeCapsAlwaysHold ==
    ((an_out # NoSignal) /\ an_in.symbol \in {"RELIANCE", "TCS", "HDFCBANK", "INFY"}) =>
        an_out.signal_type = "HOLD"

\* a large cap analysed on a snapshot whose averages, MACD, RSI and volume
\* ratio would satisfy the SELL condition had the strategy read them
C30_Witness ==
    /\ (an_out # NoSignal) /\ an_in.symbol = "TCS" /\ ~an_in.data.empty
    /\ an_in.data.sma50 = 103000 /\ an_in.data.price < an_in.data.sma50
    /\ an_in.data.macd < an_in.data.macd_signal
    /\ an_in.data.rsi = 50 /\ an_in.data.volume_ratio = 20
    /\ an_out.signal_type = "HOLD"

C21_ScenarioAdjustments ==
    LET price_data == rm_in.db.price_data
    IN  (/\ (rm_size # NoSize) /\ rm_in.db.portfolio_known /\ rm_in.db.portfolio_value = 100000
         /\ rm_in.risk_per_trade = 20
         /\ price_data.kind = "full" /\ price_data.price = 100
         /\ price_data.high = 102 /\ price_data.low = 98
         /\ price_data.change_percent = 4) =>
            /\ _calculate_enhanced_volatility(price_data) = 40
            /\ _calculate_volatility_adjustment(40) = 8
            /\ _calculate_volume_adjustment(price_data) = 13
            /\ _calculate_trend_adjustment(price_data) = 12
            /\ rm_size.returned
            /\ 5000 <= rm_size.quantity /\ rm_size.quantity <= 50000

\* C21 as it holds: the same for a quote whose traded volume is above
\* 5,000,000; the quantity is then 24.96, or 12.48 with a correlated holding
C21_ScenarioWithHighVolume ==
    LET price_data == rm_in.db.price_data
    IN  (/\ (rm_size # NoSize) /\ rm_in.db.portfolio_known /\ rm_in.db.portfolio_value = 100000
         /\ rm_in.risk_per_trade = 20
         /\ price_data.kind = "full" /\ price_data.price = 100
         /\ price_data.high = 102 /\ price_data.low = 98
         /\ price_data.change_percent = 4 /\ price_data.volume > 5000000) =>
            /\ _calculate_enhanced_volatility(price_data) = 40
            /\ _calculate_volatility_adjustment(40) = 8
            /\ _calculate_volume_adjustment(price_data) = 13
            /\ _calculate_trend_adjustment(price_data) = 12
            /\ rm_size.returned
            /\ rm_size.quantity = IF check_correlation_risk(rm_in.db, rm_in.symbol)
                                  THEN 12480 ELSE 24960
            /\ 5000 <= rm_size.quantity /\ rm_size.quantity <= 50000

\* the scenario's quote with 6,000,000 shares traded, sized to 24.96 shares
C21_Witness ==
    /\ (rm_size # NoSize)
    /\ rm_in.db.portfolio_value = 100000 /\ rm_in.risk_per_trade = 20
    /\ rm_in.db.price_data = PriceData("full", 100, 102, 98, 6000000, 4)
    /\ rm_size = [returned |-> TRUE, quantity |-> 24960]

\* the six pre-checks in the order of the specification: whether each fails
\* on the call's inputs, and the reason it gives
SixChecks ==
    LET db == rm_in.db
    IN  << <<db.price_data.price * rm_in.quantity * 1000
                > db.portfolio_value * max_position_size,
             "Position size exceeds 2.0% of portfolio">>,
           <<db.active_trades >= max_concurrent_trades,
             "Maximum concurrent trades limit (5) reached">>,
           <<db.daily_pnl * 1000 < (0 - db.portfolio_value) * max_daily_loss,
             "Daily loss limit of 5.0% reached">>,
           <<db.drawdown > max_drawdown, "Maximum drawdown of 15.0% reached">>,
           <<db.portfolio_value > 0
                /\ SectorValue(db.positions, _get_symbol_sector(rm_in.symbol)) * 1000
                       > db.portfolio_value * sector_exposure_limit,
             "Sector exposure limit of 30.0% reached">>,
           <<\E i \in 1..Len(db.positions) :
                 _calculate_symbol_correlation(rm_in.symbol, db.positions[i].symbol)
                     > correlation_threshold,
             "High correlation with existing positions">> >>

\* C17 as stated: check_risk_limits returns (True, ...) only when all six
\* pre-checks pass, and otherwise (False, reason) with the reason of the first
\* failing check in the order position size, concurrent trades, daily loss,
\* drawdown, sector exposure, correlation
C17_ReasonOfFirstFailingCheck ==
    (rm_check # NoCheck) =>
        LET failing == {i \in 1..6 : SixChecks[i][1]}
        IN  IF failing = {}
            THEN rm_check.ok
            ELSE /\ ~rm_check.ok
                 /\ \E i \in failing :
                        /\ \A j \in failing : i <= j
                        /\ rm_check.reason = SixChecks[i][2]

\* C17, amended: when the portfolio value and the current price can be
\* retrieved, check_risk_limits returns (True, ...) exactly when all six
\* pre-checks pass and otherwise (False, reason of the first failing check);
\* when one of the two cannot be retrieved it returns (False, ...) with the
\* reason naming what could not be retrieved
C17_FirstFailingOrUnavailable ==
    (rm_check # NoCheck) =>
        IF ~rm_in.db.portfolio_known
        THEN rm_check = [ok |-> FALSE, reason |-> "Could not retrieve portfolio value"]
        ELSE IF rm_in.db.price_data.kind = "none"
        THEN rm_check = [ok |-> FALSE, reason |-> "Could not retrieve current price"]
        ELSE LET failing == {i \in 1..6 : SixChecks[i][1]}
             IN  IF failing = {}
                 THEN rm_check = [ok |-> TRUE, reason |-> "Risk checks passed"]
                 ELSE /\ ~rm_check.ok
                      /\ \E i \in failing :
                             /\ \A j \in failing : i <= j
                             /\ rm_check.reason = SixChecks[i][2]

\* the concurrent-trades, drawdown and correlation checks all fail and the
\* concurrent-trades reason is returned
C17_Witness ==
    /\ (rm_check # NoCheck)
    /\ {i \in 1..6 : SixChecks[i][1]} = {2, 4, 6}
    /\ rm_check.reason = "Maximum concurrent trades limit (5) reached"

\* C18: a candidate symbol for which some existing position is in the same
\* hard-coded high-correlation pair or the same sector bucket is rejected by
\* check_risk_limits or sized with the 0.5 correlation penalty
C18_SameBucketFlagged ==
    LET db == rm_in.db
        banking_symbols == {"HDFCBANK", "ICICIBANK", "SBIN", "KOTAKBANK"}
        tech_symbols == {"TCS", "INFY"}
        same_bucket(held) ==
            \/ _calculate_symbol_correlation(rm_in.symbol, held) = 8
            \/ (rm_in.symbol \in banking_symbols /\ held \in banking_symbols)
            \/ (rm_in.symbol \in tech_symbols /\ held \in tech_symbols)
        penalized ==
            (BaseRiskAmount(db.portfolio_value, rm_in.risk_per_trade)
             * _calculate_volatility_adjustment(
                   _calculate_enhanced_volatility(db.price_data))
             * _calculate_volume_adjustment(db.price_data)
             * _calculate_trend_adjustment(db.price_data) * 5) \div 10000
    IN  (/\ (rm_check # NoCheck)
         /\ (rm_size # NoSize)
         /\ rm_size.returned
         /\ \E i \in 1..Len(db.positions) :
                db.positions[i].quantity > 0 /\ same_bucket(db.positions[i].symbol))
        => \/ ~rm_check.ok
           \/ rm_size.quantity =
                  Clamp((db.portfolio_value * 5) \div db.price_data.price,
                        (db.portfolio_value * 50) \div db.price_data.price,
                        (penalized * 1000) \div db.price_data.price)

\* C19: a sizing call with risk_per_trade <= 0 or portfolio_value <= 0 yields
\* no quantity (None, or the 0 the caller's `if not position_size` treats
\* alike), so the caller opens no trade from it
C19_InvalidConfigurationYieldsNoQuantity ==
    (/\ (rm_size # NoSize)
     /\ rm_in.db.portfolio_known
     /\ rm_in.risk_per_trade <= 0 \/ rm_in.db.portfolio_value <= 0)
        => (~rm_size.returned \/ rm_size.quantity = 0)

\* C20: with the price dictionary, the positions and the portfolio value fixed,
\* the quantity calculate_advanced_position_size returns does not decrease
\* when risk_per_trade grows
C20_MonotoneInRisk ==
    ((rm_size # NoSize) /\ rm_size.returned) =>
        \A risk_per_trade \in RiskPerTrades :
            risk_per_trade >= rm_in.risk_per_trade =>
                LET larger == calculate_advanced_position_size(rm_in.db, rm_in.symbol,
                                                               risk_per_trade)
                IN  larger.returned /\ larger.quantity >= rm_size.quantity

\* 1% sized to 1.17% of the portfolio and 2% to 2.34%, neither clamped
C20_Witness ==
    /\ (rm_size # NoSize)
    /\ rm_in.risk_per_trade = 10
    /\ rm_in.db.portfolio_value = 100000
    /\ rm_size = [returned |-> TRUE, quantity |-> 1170]
    /\ calculate_advanced_position_size(rm_in.db, rm_in.symbol, 20).quantity = 2340

C29_NeverOpens ==
    /\ at_active_trades = <<>>
    /\ \A token_data \in TokenDatas :
           /\ generate_enhanced_signal(token_data).signal = "HOLD"
           /\ generate_enhanced_signal(token_data).confidence = 0

\* a second iteration has scanned all ten symbols, with quotes on offer that
\* meet every BUY condition except the volume score, and no limit in the way
C29_Witness ==
    /\ at_pc = "opportunities" /\ at_iterations >= 2
    /\ at_cursor > Len(enhanced_symbols)
    /\ rm_db.active_trades = 0
    /\ at_active_trades = <<>>
    /\ \E token_data \in TokenDatas :
           /\ token_data.percentChange = 70 /\ token_data.tradeVolume = 6000000
           /\ generate_enhanced_signal(token_data).volume_score = 100
           /\ generate_enhanced_signal(token_data).volatility_score < 2

C26_OneLoopThreadIterates ==
    Cardinality({t \in 1..Len(loop_threads) :
                    loop_threads[t].pc \in {"signals", "monitor", "close"}}) <= 1

\* C25: no two threads are inside a mutation of the active-trade map for the
\* same trade id at the same time.
C25_SingleWriterPerTrade ==
    \A t1, t2 \in 1..Len(loop_threads) :
        (/\ t1 # t2
         /\ loop_threads[t1].pc = "close"
         /\ loop_threads[t2].pc = "close")
        => loop_threads[t1].closing # loop_threads[t2].closing

====
